---- MODULE Spec2Model ----
(***************************************************************************)
(* Model of the AI Safety Radar queue worker (scripts/run_agent_core.py),  *)
(* its Redis stream wrapper (utils/redis_client.py), the editorial         *)
(* workflow (orchestration/editorial_graph.py with the curator and critic  *)
(* agents), the per-document workflow (orchestration/ingestion_graph.py    *)
(* with the filter and extraction agents) and the ingestion service        *)
(* (scripts/run_ingestion_service.py), the manual triggers and the          *)
(* maintenance operations (scripts/backfill_once.py,                       *)
(* scripts/remove_duplicates.py, dashboard/app.py).                        *)
(*                                                                         *)
(* The module holds several specifications over one set of variables:      *)
(*   Spec           one worker process polling papers:pending              *)
(*   SpecCrashFair  the same worker with crashes/restarts and fairness     *)
(*   SpecConc       two worker processes in the same consumer group        *)
(*   SpecEditorial  one editorial run (EditorialGraph.run), called either  *)
(*                  from run_curator_workflow or directly                  *)
(*   SpecEditorialFair  the same run, scheduled until it ends              *)
(*   SpecRaise      one worker whose Redis calls after the workflow may    *)
(*                  raise                                                  *)
(*   SpecIngest     the ingestion service feeding one worker               *)
(*   SpecDedup      mark_as_processed and is_duplicate on bounded titles   *)
(*   SpecWorkflow   one invocation of the per-document workflow            *)
(*   SpecWorkflowFair   the same invocation, scheduled until it ends       *)
(*   SpecExtract    the extract node of the workflow on a relevant         *)
(*                  document, with the construction of the result          *)
(*   SpecSignature  the construction of a ThreatSignature from bounded     *)
(*                  field values                                           *)
(*   SpecClient     add_job, read_jobs and ack_job of RedisClient beside   *)
(*                  a worker that starts and restarts                      *)
(*   SpecCurator    one worker fed long enough to reach the curator        *)
(*                  schedule of the handling loop                          *)
(*   SpecMaint      one worker beside the operations that delete stream    *)
(*                  entries                                                *)
(*   SpecTrigger    the channel agent:trigger and its two subscribers      *)
(*   SpecValidate   validation and saving of workflow results              *)
(* Each specification leaves the variables of the other part untouched.    *)
(***************************************************************************)
EXTENDS Integers, Sequences, FiniteSets, TLC

VARIABLES
    \* ---- Redis state shared by all processes ----
    pending,          \* stream papers:pending: sequence of payloads, entry id = index
    lastDelivered,    \* consumer group cursor (last-delivered-id) of agent_group
    pel,              \* pending-entries list of agent_group: set of [id, consumer]
    groupExists,      \* the consumer group agent_group exists on papers:pending
    analyzed,         \* stream papers:analyzed: sequence of written results
    idMarker,         \* live keys processed:id:<id>: records [key: id, ex: seconds]
    hashMarker,       \* live keys processed:hash:<hash>: records [key: hash, ex: seconds]
    latest_summary,   \* value of key curator:latest_summary
    \* ---- worker processes (main() of run_agent_core.py) ----
    procs,            \* the worker processes that run
    pc,               \* position of each worker in main()
    msg_id,           \* local variable msg_id of the handling loop
    doc,              \* local variable doc (parsed RawDocument)
    threat_sig,       \* local variable threat_sig (TRUE: a ThreatSignature, FALSE: None)
    processed_count,  \* local variable processed_count
    \* ---- history (ghost) variables of the queue part ----
    recv,             \* the entry id the current/last delivery of a worker carried
    delivered,        \* entry ids ever delivered to the group
    expired,          \* marker keys that ever expired
    crashes,          \* number of worker crashes so far
    \* ---- one editorial run ----
    caller,           \* who calls EditorialGraph.run: "curator" or "direct"
    messages,         \* run_curator_workflow: entries read from papers:analyzed, TRUE = decodes to a ThreatSignature
    cw_pc,            \* position of the caller
    ed_pc,            \* position inside the compiled graph / run()
    threats,          \* EditorialState.threats
    current_briefing, \* EditorialState.current_briefing
    critique_result,  \* EditorialState.critique_result
    retry_count,      \* EditorialState.retry_count
    final_output,     \* EditorialState.final_output
    ret,              \* value returned by EditorialGraph.run
    calls,            \* structured-extraction calls issued in this run, per node
    callFailed,       \* a structured-extraction call of this run raised
    critiqued,        \* the briefing handed to the latest critique call
    revises,          \* number of REVISE steps completed in this run
    propagated,       \* an exception reached the caller of the run
    \* ---- the two dedup functions called on their own ----
    dd_pc,            \* "start", "marked" (mark_as_processed returned), "checked"
    marked_doc,       \* argument doc of mark_as_processed
    checked_doc,      \* argument doc of is_duplicate
    dup_ret,          \* value returned by is_duplicate
    \* ---- one run of the per-document workflow (IngestionGraph) ----
    wf_pc,            \* position inside the compiled graph and its agents
    wf_doc,           \* state["doc"], reduced to what the agents look at
    regex_result,     \* FilterAgent.analyze: local regex_result
    filter_result,    \* value returned by FilterAgent.analyze
    is_relevant,      \* IngestionState.is_relevant
    threat_signature, \* IngestionState.threat_signature
    steps,            \* nodes of the graph run so far, in order
    llm_calls,        \* structured-extraction calls issued, per agent
    llm_error,        \* the exception the failed call of each agent raised
    wf_raised,        \* an exception left the workflow
    \* ---- ingestion service (run_ingestion_cycle) ----
    ing_pc,           \* "idle" between cycles, "loop" inside the for loop
    papers,           \* local list papers of the running cycle
    ing_i,            \* index of the loop over papers
    cycles,           \* ingestion cycles started so far
    filter_log,       \* history: the analyze calls of the ingestion service
    \* ---- ExtractionAgent.process and the ThreatSignature constructor ----
    extraction,       \* ExtractionAgent.process: the response of the structured call
    ts_pc,            \* a ThreatSignature(**kwargs) call on its own: "start", "done"
    ts_kwargs,        \* the keyword arguments of that call
    ts_obj,           \* the object it built, or the ValidationError it raised
    \* ---- history of the startup reclaim ----
    reclaimed,        \* in-flight entries that an XAUTOCLAIM of a starting worker claimed
    \* ---- a process calling RedisClient.add_job / read_jobs / ack_job ----
    cl_pc,            \* "idle" between calls, "read" inside read_jobs after the group creation
    cl_results,       \* the list the last read_jobs call returned
    cl_added,         \* history: the payload object handed to add_job, per returned entry id
    acked,            \* history: the msg_id arguments of the ack_job calls, in order
    cl_error,         \* the exception the last RedisClient call raised (None: it returned)
    cl_before,        \* ids the stream held when the running read_jobs call created the group ({}: it did not)
    \* ---- curator schedule and the channel agent:trigger ----
    curator_runs,     \* history: editorial runs started by the handling loop
    tr_inbox,         \* messages published on agent:trigger that a subscriber has not handled yet
    started,          \* history: [msg, workflow] for every workflow a trigger message started
    \* ---- validation and saving of one workflow result (main, 466-509) ----
    va_pc,            \* "workflow", "validate", "save", "done", "except"
    va_final,         \* final_state.get("threat_signature") of the run
    va_sig,           \* local variable threat_sig
    \* ---- maintenance ----
    resets            \* history: runs of safe_reset_streams

qvars == <<pending, lastDelivered, pel, groupExists, analyzed, idMarker, hashMarker,
           procs, pc, msg_id, doc, threat_sig, processed_count,
           recv, delivered, expired, crashes>>
evars == <<caller, messages, cw_pc, ed_pc, threats, current_briefing,
           critique_result, retry_count, final_output, ret, calls,
           callFailed, critiqued, revises, propagated>>
avars == <<dd_pc, marked_doc, checked_doc, dup_ret,
           wf_pc, wf_doc, regex_result, filter_result, is_relevant,
           threat_signature, steps, llm_calls, llm_error, wf_raised,
           ing_pc, papers, ing_i, cycles, filter_log>>
svars == <<extraction, ts_pc, ts_kwargs, ts_obj>>
cvars == <<cl_pc, cl_results, cl_added, acked, cl_error, cl_before>>
tvars == <<curator_runs, tr_inbox, started, va_pc, va_final, va_sig, resets>>
xvars == <<svars, reclaimed, cvars, tvars>>
vars == <<qvars, latest_summary, evars, avars, xvars>>

-----------------------------------------------------------------------------
(* Bounds of the model *)
MaxThreats == 2      \* longest threat batch / analyzed read considered

(* Program constants *)
MAX_RETRIES == 3
TTL == 2592000       \* 30 * 24 * 60 * 60 seconds, the expiry of both marker keys

-----------------------------------------------------------------------------
(* Editorial workflow: values *)

None == [kind |-> "none", ver |-> 0]
\* the canned briefing of CuratorAgent.draft_briefing for an empty batch
CannedBriefing == [kind |-> "canned", ver |-> 0]
\* a DailyBriefing returned by a structured-extraction call; ver tells the
\* successive results of one run apart
LLMBriefing(n) == [kind |-> "llm", ver |-> n]

NoCalls == [draft |-> 0, critique |-> 0, revise |-> 0]
TotalCalls == calls.draft + calls.critique + calls.revise

\* Python truthiness of an Optional[DailyBriefing]
Truthy(b) == b # None

(* EditorialGraph.check_approval: the routing key after CRITIQUE *)
check_approval_GT(cr, rc) ==
    IF cr = "none" THEN "max_retries"
    ELSE IF cr = "approved" THEN "approved"
    ELSE IF rc > MAX_RETRIES THEN "max_retries"
    ELSE "rejected"

check_approval_NoApprove(cr, rc) ==
    IF cr = "none" THEN "max_retries"
    ELSE IF rc >= MAX_RETRIES THEN "max_retries"
    ELSE "rejected"

check_approval(cr, rc) ==
    IF cr = "none" THEN "max_retries"
    ELSE IF cr = "approved" THEN "approved"
    ELSE IF rc >= MAX_RETRIES THEN "max_retries"
    ELSE "rejected"

(* EditorialGraph.run, the return expression:                              *)
(* final_state.get("final_output") or final_state.get("current_briefing") *)
run_result_FinalOnly(fo, cb) == fo

run_result(fo, cb) == IF Truthy(fo) THEN fo ELSE cb

-----------------------------------------------------------------------------
(* Editorial workflow: the graph nodes *)

\* CuratorAgent.draft_briefing issues a structured-extraction call unless
\* the batch is empty ("if not threats: return DailyBriefing(...)")
DraftNeedsCall_Always(t) == TRUE

DraftNeedsCall(t) == t # <<>>

\* the next briefing a curator call (draft or revise) of this run returns
NextBriefing == LLMBriefing(calls.draft + calls.revise + 1)

EnterRun_AtCritique(t) ==
    /\ threats' = t
    /\ current_briefing' = None
    /\ critique_result' = "none"
    /\ retry_count' = 0
    /\ final_output' = None
    /\ ed_pc' = "critique"
    /\ cw_pc' = "in_run"

\* EditorialGraph.run builds the initial state and invokes the graph, whose
\* entry point is "draft"
EnterRun(t) ==
    /\ threats' = t
    /\ current_briefing' = None
    /\ critique_result' = "none"
    /\ retry_count' = 0
    /\ final_output' = None
    /\ ed_pc' = "draft"
    /\ cw_pc' = "in_run"

\* an exception leaves the graph: the run ends without a return value
Raise == ed_pc' = "raised"

draft_node ==
    /\ ed_pc = "draft"
    /\ IF ~DraftNeedsCall(threats)
       THEN /\ current_briefing' = CannedBriefing
            /\ retry_count' = 0
            /\ ed_pc' = "critique"
            /\ UNCHANGED <<calls, callFailed>>
       ELSE /\ calls' = [calls EXCEPT !.draft = @ + 1]
            /\ \/ /\ current_briefing' = NextBriefing
                  /\ retry_count' = 0
                  /\ ed_pc' = "critique"
                  /\ UNCHANGED callFailed
               \/ /\ callFailed' = TRUE
                  /\ Raise
                  /\ UNCHANGED <<current_briefing, retry_count>>
    /\ UNCHANGED <<qvars, avars, xvars, latest_summary, caller, messages, cw_pc, threats,
                   critique_result, final_output, ret, critiqued, revises,
                   propagated>>

critique_node ==
    /\ ed_pc = "critique"
    /\ IF ~Truthy(current_briefing)
       THEN /\ Raise       \* ValueError("No briefing to critique")
            /\ UNCHANGED <<calls, callFailed, critique_result, final_output,
                           critiqued>>
       ELSE /\ calls' = [calls EXCEPT !.critique = @ + 1]
            /\ critiqued' = current_briefing
            /\ \/ /\ critique_result' = "approved"
                  /\ final_output' = current_briefing
                  /\ ed_pc' = "check"
                  /\ UNCHANGED callFailed
               \/ /\ critique_result' = "rejected"
                  /\ ed_pc' = "check"
                  /\ UNCHANGED <<final_output, callFailed>>
               \/ /\ callFailed' = TRUE
                  /\ Raise
                  /\ UNCHANGED <<critique_result, final_output>>
    /\ UNCHANGED <<qvars, avars, xvars, latest_summary, caller, messages, cw_pc, threats,
                   current_briefing, retry_count, ret, revises, propagated>>

\* the conditional edge after "critique":
\* {"approved": END, "rejected": "revise", "max_retries": END}
route_after_critique ==
    /\ ed_pc = "check"
    /\ ed_pc' = IF check_approval(critique_result, retry_count) = "rejected"
                THEN "revise" ELSE "END"
    /\ UNCHANGED <<qvars, avars, xvars, latest_summary, caller, messages, cw_pc, threats,
                   current_briefing, critique_result, retry_count,
                   final_output, ret, calls, callFailed, critiqued, revises,
                   propagated>>

revise_node_NoIncrement ==
    /\ ed_pc = "revise"
    /\ calls' = [calls EXCEPT !.revise = @ + 1]
    /\ \/ /\ current_briefing' = NextBriefing
          /\ revises' = revises + 1
          /\ ed_pc' = "critique"
          /\ UNCHANGED <<callFailed, retry_count>>
       \/ /\ callFailed' = TRUE
          /\ Raise
          /\ UNCHANGED <<current_briefing, retry_count, revises>>
    /\ UNCHANGED <<qvars, avars, xvars, latest_summary, caller, messages, cw_pc, threats,
                   critique_result, final_output, ret, critiqued, propagated>>

revise_node ==
    /\ ed_pc = "revise"
    /\ IF ~Truthy(current_briefing) \/ critique_result = "none"
       THEN /\ Raise       \* ValueError("Missing briefing or critique ...")
            /\ UNCHANGED <<calls, callFailed, current_briefing, retry_count,
                           revises>>
       ELSE /\ calls' = [calls EXCEPT !.revise = @ + 1]
            /\ \/ /\ current_briefing' = NextBriefing
                  /\ retry_count' = retry_count + 1
                  /\ revises' = revises + 1
                  /\ ed_pc' = "critique"      \* add_edge("revise", "critique")
                  /\ UNCHANGED callFailed
               \/ /\ callFailed' = TRUE
                  /\ Raise
                  /\ UNCHANGED <<current_briefing, retry_count, revises>>
    /\ UNCHANGED <<qvars, avars, xvars, latest_summary, caller, messages, cw_pc, threats,
                   critique_result, final_output, ret, critiqued, propagated>>

\* EditorialGraph.run after ainvoke returned
run_return ==
    /\ ed_pc = "END"
    /\ ret' = run_result(final_output, current_briefing)
    /\ ed_pc' = "returned"
    /\ UNCHANGED <<qvars, avars, xvars, latest_summary, caller, messages, cw_pc, threats,
                   current_briefing, critique_result, retry_count,
                   final_output, calls, callFailed, critiqued, revises,
                   propagated>>

-----------------------------------------------------------------------------
(* Editorial workflow: the callers of EditorialGraph.run *)

\* run_curator_workflow up to the call of editorial.run: read the analyzed
\* stream, decode each entry, return early when nothing (valid) was read
ValidThreats(msgs) == SelectSeq(msgs, LAMBDA m : m)

curator_read ==
    /\ caller = "curator" /\ cw_pc = "start"
    /\ IF messages = <<>> \/ ValidThreats(messages) = <<>>
       THEN /\ cw_pc' = "returned"
            /\ UNCHANGED <<threats, current_briefing, critique_result,
                           retry_count, final_output, ed_pc>>
       ELSE EnterRun(ValidThreats(messages))
    /\ UNCHANGED <<qvars, avars, xvars, latest_summary, caller, messages, ret, calls,
                   callFailed, critiqued, revises, propagated>>

\* run_curator_workflow after editorial.run returned: store the summary
curator_store ==
    /\ caller = "curator" /\ cw_pc = "in_run" /\ ed_pc = "returned"
    /\ latest_summary' = IF Truthy(ret) THEN "briefing" ELSE "no_briefing"
    /\ cw_pc' = "returned"
    /\ UNCHANGED <<qvars, avars, xvars, caller, messages, ed_pc, threats, current_briefing,
                   critique_result, retry_count, final_output, ret, calls,
                   callFailed, critiqued, revises, propagated>>

curator_except_Reraise ==
    /\ caller = "curator" /\ cw_pc = "in_run" /\ ed_pc = "raised"
    /\ propagated' = TRUE
    /\ cw_pc' = "raised"
    /\ UNCHANGED <<qvars, avars, xvars, latest_summary, caller, messages, ed_pc, threats,
                   current_briefing, critique_result, retry_count,
                   final_output, ret, calls, callFailed, critiqued, revises>>

\* run_curator_workflow, "except Exception": store the fallback text
curator_except ==
    /\ caller = "curator" /\ cw_pc = "in_run" /\ ed_pc = "raised"
    /\ latest_summary' = "error"
    /\ cw_pc' = "returned"
    /\ UNCHANGED <<qvars, avars, xvars, caller, messages, ed_pc, threats, current_briefing,
                   critique_result, retry_count, final_output, ret, calls,
                   callFailed, critiqued, revises, propagated>>

\* EditorialGraph.run called as a public method, with any batch, by a
\* caller that does not catch (the way run_pipeline.py calls it)
direct_call ==
    /\ caller = "direct" /\ cw_pc = "start"
    /\ \E n \in 0..MaxThreats : EnterRun([i \in 1..n |-> TRUE])
    /\ UNCHANGED <<qvars, avars, xvars, latest_summary, caller, messages, ret, calls,
                   callFailed, critiqued, revises, propagated>>

direct_done ==
    /\ caller = "direct" /\ cw_pc = "in_run"
    /\ \/ ed_pc = "returned" /\ cw_pc' = "returned" /\ UNCHANGED propagated
       \/ ed_pc = "raised" /\ cw_pc' = "raised" /\ propagated' = TRUE
    /\ UNCHANGED <<qvars, avars, xvars, latest_summary, caller, messages, ed_pc, threats,
                   current_briefing, critique_result, retry_count,
                   final_output, ret, calls, callFailed, critiqued, revises>>

-----------------------------------------------------------------------------
(* Queue worker: values *)

MaxPending == 3      \* entries ever appended to papers:pending
MaxExpiries == 1     \* marker keys that expire during a run of the model
MaxCrashes == 1      \* worker crashes during a run of the model
MaxRaises == 1       \* steps after the workflow raise while papers:analyzed is this short

CONSUMER_NAME == "agent_worker_1"
\* operating-system processes that may run main(); every one of them uses
\* the consumer name CONSUMER_NAME
Workers == {"p1", "p2"}

NoDoc == [id |-> 0, title |-> <<>>]
NoLLMCalls == [filter |-> 0, extract |-> 0]
NoErrors == [filter |-> None, extract |-> None]
\* documents that producers enqueue: the first two share the title
\* fingerprint, the first and the third share the id, the last three share
\* neither
DocPool == { [id |-> 1, title |-> <<"A">>],
             [id |-> 2, title |-> <<"a", "!">>],
             [id |-> 1, title |-> <<"b">>],
             [id |-> 3, title |-> <<"c">>] }
\* the "data" field of a stream entry: a JSON document that validates as a
\* RawDocument, a string that is not JSON, or JSON that does not validate
Payloads == { [kind |-> "doc", doc |-> d] : d \in DocPool }
            \cup { [kind |-> "badjson", doc |-> NoDoc],
                   [kind |-> "invalid", doc |-> NoDoc] }

(* compute_content_hash *)
\* str.lower(), on the letters that occur in the model
LowerOf == [A |-> "a", B |-> "b", C |-> "c", G |-> "g", H |-> "h",
            I |-> "i", L |-> "l", M |-> "m"]
Lower(c) == IF c \in DOMAIN LowerOf THEN LowerOf[c] ELSE c
IsSpace(c) == c = " "
IsAlnum(c) == c \in {"a", "b", "c", "A", "B", "0", "1"}

LowerSeq(s) == [i \in 1..Len(s) |-> Lower(s[i])]

\* " ".join(s.split()): drop leading and trailing whitespace, replace every
\* inner run of whitespace by one space
RECURSIVE Words(_, _)
Words(s, cur) ==
    IF s = <<>> THEN (IF cur = <<>> THEN <<>> ELSE <<cur>>)
    ELSE IF IsSpace(Head(s))
         THEN (IF cur = <<>> THEN <<>> ELSE <<cur>>) \o Words(Tail(s), <<>>)
         ELSE Words(Tail(s), Append(cur, Head(s)))

RECURSIVE JoinWords(_)
JoinWords(ws) ==
    IF ws = <<>> THEN <<>>
    ELSE IF Len(ws) = 1 THEN ws[1]
    ELSE ws[1] \o <<" ">> \o JoinWords(Tail(ws))

SplitJoin(s) == JoinWords(Words(s, <<>>))

KeepAlnumSpace(s) == SelectSeq(s, LAMBDA c : IsAlnum(c) \/ IsSpace(c))

\* sha256(...).hexdigest()[:16] is taken to be collision free: the key is
\* represented by the normalized text it is computed from
compute_content_hash(title) == KeepAlnumSpace(SplitJoin(LowerSeq(title)))

(* Redis stream primitives, as used by the worker *)
PelIds == { e.id : e \in pel }
\* the entries a history read (cursor "0-0") by consumer c can return
OwnPel_Empty(c) == {}

OwnPel(c) == { e.id : e \in { x \in pel : x.consumer = c } }
Min(S) == CHOOSE m \in S : \A x \in S : m <= x

XAck_RemovesOlder(p, id) == { e \in p : e.id > id }

\* XACK <stream> <group> <id>: the entry with that id leaves the in-flight
\* list of the group; an id that is not in the list removes nothing
XAck(p, id) == { e \in p : e.id # id }

XGroupCreate_Resets(exists, cursor, start) ==
    [exists |-> TRUE, cursor |-> start, busy |-> exists]

\* XGROUP CREATE <stream> <group> <start> MKSTREAM: a new group gets the
\* cursor start and an empty in-flight list; for an existing group the
\* command fails with BUSYGROUP and changes nothing
XGroupCreate(exists, cursor, start) ==
    [exists |-> TRUE, cursor |-> IF exists THEN cursor ELSE start,
     busy |-> exists]

\* XADD returns the id of the new entry. Redis ids are <ms>-<seq>; the id
\* of an entry written to papers:analyzed is kept apart from the ids of
\* papers:pending, whose entries are numbered by their position.
AnalyzedId(n) == 0 - n

\* the entries of papers:analyzed written for document id d
AnalyzedFor(d) == { k \in 1..Len(analyzed) : analyzed[k].doc.id = d }

(* is_duplicate, the two EXISTS tests *)
HasIdMarker_Never(d) == FALSE

HasIdMarker(d) == \E m \in idMarker : m.key = d.id

HasHashMarker(d) == \E m \in hashMarker : m.key = compute_content_hash(d.title)

\* SET <key> <value> EX <ex>: the key is created or overwritten and its
\* expiry restarted
SetEx(store, k, seconds) ==
    { m \in store : m.key # k } \cup { [key |-> k, ex |-> seconds] }

-----------------------------------------------------------------------------
(* Queue worker: main() of run_agent_core.py, one action per awaited step *)

Goto(w, l) == pc' = [pc EXCEPT ![w] = l]

\* startup: xgroup_create("papers:pending", CONSUMER_GROUP, id="0",
\* mkstream=True) inside "try: ... except Exception: pass"
boot(w) ==
    /\ pc[w] = "boot"
    /\ LET g == XGroupCreate(groupExists, lastDelivered, 0)
       IN groupExists' = g.exists /\ lastDelivered' = g.cursor
    /\ Goto(w, "reclaim")
    /\ UNCHANGED <<pending, pel, analyzed, idMarker, hashMarker, latest_summary,
                   procs, msg_id, doc, threat_sig, processed_count, recv,
                   delivered, expired, crashes, evars, avars, xvars>>

reset_consumer_group_if_stuck_ToOther(w) ==
    /\ pc[w] = "reclaim"
    /\ \E S \in SUBSET PelIds :
          /\ pel' = { e \in pel : e.id \notin S }
                    \cup { [id |-> i, consumer |-> "other"] : i \in S }
          /\ reclaimed' = reclaimed \cup S
    /\ Goto(w, "poll")
    /\ UNCHANGED <<pending, lastDelivered, groupExists, analyzed, idMarker,
                   hashMarker, latest_summary, procs, msg_id, doc, threat_sig,
                   processed_count, recv, delivered, expired, crashes, evars,
                   avars, svars, cvars, tvars>>

\* startup: reset_consumer_group_if_stuck, XAUTOCLAIM of the entries idle
\* for 60 s to CONSUMER_NAME (idle times are not modelled: any set of
\* in-flight entries may be old enough)
reset_consumer_group_if_stuck(w) ==
    /\ pc[w] = "reclaim"
    /\ \E S \in SUBSET PelIds :
          /\ pel' = { e \in pel : e.id \notin S }
                    \cup { [id |-> i, consumer |-> CONSUMER_NAME] : i \in S }
          /\ reclaimed' = reclaimed \cup S
    /\ Goto(w, "poll")
    /\ UNCHANGED <<pending, lastDelivered, groupExists, analyzed, idMarker,
                   hashMarker, latest_summary, procs, msg_id, doc, threat_sig,
                   processed_count, recv, delivered, expired, crashes, evars,
                   avars, svars, cvars, tvars>>

poll_history_SkipsHistory(w) ==
    /\ pc[w] = "poll"
    /\ Goto(w, "poll_new")
    /\ UNCHANGED <<pending, lastDelivered, pel, groupExists, analyzed,
                   idMarker, hashMarker, latest_summary, procs, doc,
                   threat_sig, processed_count, delivered, expired, crashes,
                   msg_id, recv, evars, avars, xvars>>

\* Step 1: XREADGROUP ... streams={"papers:pending": "0-0"}, count=1:
\* the oldest entry in-flight to this consumer name, if any
poll_history(w) ==
    /\ pc[w] = "poll"
    /\ IF OwnPel(CONSUMER_NAME) # {}
       THEN /\ msg_id' = [msg_id EXCEPT ![w] = Min(OwnPel(CONSUMER_NAME))]
            /\ recv' = [recv EXCEPT ![w] = Min(OwnPel(CONSUMER_NAME))]
            /\ Goto(w, "handle")
       ELSE /\ Goto(w, "poll_new")
            /\ UNCHANGED <<msg_id, recv>>
    /\ UNCHANGED <<pending, lastDelivered, pel, groupExists, analyzed,
                   idMarker, hashMarker, latest_summary, procs, doc,
                   threat_sig, processed_count, delivered, expired, crashes,
                   evars, avars, xvars>>

\* Step 2: XREADGROUP ... streams={"papers:pending": ">"}, count=1,
\* block=5000: the next never-delivered entry, or nothing after the timeout
\* (then asyncio.sleep(1) and the next iteration)
poll_new(w) ==
    /\ pc[w] = "poll_new"
    /\ IF lastDelivered < Len(pending)
       THEN /\ lastDelivered' = lastDelivered + 1
            /\ pel' = pel \cup { [id |-> lastDelivered + 1,
                                  consumer |-> CONSUMER_NAME] }
            /\ delivered' = delivered \cup {lastDelivered + 1}
            /\ msg_id' = [msg_id EXCEPT ![w] = lastDelivered + 1]
            /\ recv' = [recv EXCEPT ![w] = lastDelivered + 1]
            /\ Goto(w, "handle")
       ELSE /\ Goto(w, "poll")
            /\ UNCHANGED <<lastDelivered, pel, delivered, msg_id, recv>>
    /\ UNCHANGED <<pending, groupExists, analyzed, idMarker, hashMarker,
                   latest_summary, procs, doc, threat_sig, processed_count,
                   expired, crashes, evars, avars, xvars>>

unwrap_NoAck(w) ==
    /\ pc[w] = "handle"
    /\ IF pending[recv[w]].kind = "doc"
       THEN /\ doc' = [doc EXCEPT ![w] = pending[recv[w]].doc]
            /\ Goto(w, "dup_id")
       ELSE /\ Goto(w, "poll")
            /\ UNCHANGED doc
    /\ UNCHANGED <<pending, lastDelivered, pel, groupExists, analyzed, idMarker,
                   hashMarker, latest_summary, procs, msg_id, threat_sig,
                   processed_count, recv, delivered, expired, crashes, evars,
                   avars, xvars>>

\* unwrap the "data" field and build the RawDocument; a payload that does
\* not decode or validate is acknowledged and skipped
unwrap(w) ==
    /\ pc[w] = "handle"
    /\ IF pending[recv[w]].kind = "doc"
       THEN /\ doc' = [doc EXCEPT ![w] = pending[recv[w]].doc]
            /\ Goto(w, "dup_id")
            /\ UNCHANGED <<pel, reclaimed>>
       ELSE /\ pel' = XAck(pel, msg_id[w])
            /\ reclaimed' = reclaimed \ {msg_id[w]}
            /\ Goto(w, "poll")
            /\ UNCHANGED doc
    /\ UNCHANGED <<pending, lastDelivered, groupExists, analyzed, idMarker,
                   hashMarker, latest_summary, procs, msg_id, threat_sig,
                   processed_count, recv, delivered, expired, crashes, evars, avars, svars, cvars, tvars>>

\* is_duplicate, check 1: EXISTS processed:id:<doc.id>
dup_check_id(w) ==
    /\ pc[w] = "dup_id"
    /\ Goto(w, IF HasIdMarker(doc[w]) THEN "skip_dup" ELSE "dup_hash")
    /\ UNCHANGED <<pending, lastDelivered, pel, groupExists, analyzed,
                   idMarker, hashMarker, latest_summary, procs, msg_id, doc,
                   threat_sig, processed_count, recv, delivered, expired,
                   crashes, evars, avars, xvars>>

\* is_duplicate, check 2: EXISTS processed:hash:<fingerprint>
dup_check_hash(w) ==
    /\ pc[w] = "dup_hash"
    /\ Goto(w, IF HasHashMarker(doc[w]) THEN "skip_dup" ELSE "workflow")
    /\ UNCHANGED <<pending, lastDelivered, pel, groupExists, analyzed,
                   idMarker, hashMarker, latest_summary, procs, msg_id, doc,
                   threat_sig, processed_count, recv, delivered, expired,
                   crashes, evars, avars, xvars>>

skip_duplicate_NoCount(w) ==
    /\ pc[w] = "skip_dup"
    /\ pel' = XAck(pel, msg_id[w])
    /\ reclaimed' = reclaimed \ {msg_id[w]}
    /\ Goto(w, "poll")
    /\ UNCHANGED <<pending, lastDelivered, groupExists, analyzed, idMarker,
                   hashMarker, latest_summary, procs, msg_id, doc,
                   threat_sig, processed_count, recv, delivered, expired,
                   crashes, evars, avars, svars, cvars, tvars>>

\* duplicate: xack, processed_count += 1, continue
skip_duplicate(w) ==
    /\ pc[w] = "skip_dup"
    /\ pel' = XAck(pel, msg_id[w])
    /\ reclaimed' = reclaimed \ {msg_id[w]}
    /\ processed_count' = [processed_count EXCEPT ![w] = @ + 1]
    /\ Goto(w, "poll")
    /\ UNCHANGED <<pending, lastDelivered, groupExists, analyzed, idMarker,
                   hashMarker, latest_summary, procs, msg_id, doc,
                   threat_sig, recv, delivered, expired, crashes, evars, avars, svars, cvars, tvars>>

\* ingestion_graph.workflow.ainvoke and validate_analysis_result: the run
\* yields a ThreatSignature that passes validation, or none (irrelevant,
\* extraction failed, speculative), or it raises
run_workflow(w) ==
    /\ pc[w] = "workflow"
    /\ \/ /\ threat_sig' = [threat_sig EXCEPT ![w] = TRUE]
          /\ Goto(w, "save")
       \/ /\ threat_sig' = [threat_sig EXCEPT ![w] = FALSE]
          /\ Goto(w, "mark_id")
       \/ /\ Goto(w, "except")
          /\ UNCHANGED threat_sig
    /\ UNCHANGED <<pending, lastDelivered, pel, groupExists, analyzed,
                   idMarker, hashMarker, latest_summary, procs, msg_id, doc,
                   processed_count, recv, delivered, expired, crashes, evars, avars, xvars>>

\* msg_id = await redis_client.add_job("papers:analyzed", result_payload)
\* (src and by record which delivery and which process wrote the entry)
save_analyzed(w) ==
    /\ pc[w] = "save"
    /\ analyzed' = Append(analyzed, [doc |-> doc[w], src |-> recv[w],
                                     by |-> w])
    /\ msg_id' = [msg_id EXCEPT ![w] = AnalyzedId(Len(analyzed) + 1)]
    /\ Goto(w, "mark_id")
    /\ UNCHANGED <<pending, lastDelivered, pel, groupExists, idMarker,
                   hashMarker, latest_summary, procs, doc, threat_sig,
                   processed_count, recv, delivered, expired, crashes, evars, avars, xvars>>

\* mark_as_processed: SET processed:id:<doc.id> "1" EX 2592000
mark_id(w) ==
    /\ pc[w] = "mark_id"
    /\ idMarker' = SetEx(idMarker, doc[w].id, TTL)
    /\ Goto(w, "mark_hash")
    /\ UNCHANGED <<pending, lastDelivered, pel, groupExists, analyzed,
                   hashMarker, latest_summary, procs, msg_id, doc,
                   threat_sig, processed_count, recv, delivered, expired,
                   crashes, evars, avars, xvars>>

mark_hash_NoWrite(w) ==
    /\ pc[w] = "mark_hash"
    /\ Goto(w, "ack")
    /\ UNCHANGED <<pending, lastDelivered, pel, groupExists, analyzed,
                   idMarker, hashMarker, latest_summary, procs, msg_id, doc,
                   threat_sig, processed_count, recv, delivered, expired,
                   crashes, evars, avars, xvars>>

\* mark_as_processed: SET processed:hash:<fingerprint> <doc.id> EX 2592000
mark_hash(w) ==
    /\ pc[w] = "mark_hash"
    /\ hashMarker' = SetEx(hashMarker, compute_content_hash(doc[w].title), TTL)
    /\ Goto(w, "ack")
    /\ UNCHANGED <<pending, lastDelivered, pel, groupExists, analyzed,
                   idMarker, latest_summary, procs, msg_id, doc, threat_sig,
                   processed_count, recv, delivered, expired, crashes, evars, avars, xvars>>

\* "# ACK": xack("papers:pending", CONSUMER_GROUP, msg_id),
\* processed_count += 1, and every 5 papers run_curator_workflow; the
\* editorial run inside it is described step by step under SpecEditorial,
\* here only its effect on curator:latest_summary is kept (nothing is
\* stored when papers:analyzed is empty)
ack(w) ==
    /\ pc[w] = "ack"
    /\ pel' = XAck(pel, msg_id[w])
    /\ reclaimed' = reclaimed \ {msg_id[w]}
    /\ processed_count' = [processed_count EXCEPT ![w] = @ + 1]
    /\ IF (processed_count[w] + 1) % 5 = 0
       THEN IF analyzed # <<>>
            THEN /\ curator_runs' = curator_runs + 1
                 /\ latest_summary' \in {"briefing", "error"}
            ELSE UNCHANGED <<latest_summary, curator_runs>>
       ELSE UNCHANGED <<latest_summary, curator_runs>>
    /\ Goto(w, "poll")
    /\ UNCHANGED <<pending, lastDelivered, groupExists, analyzed, idMarker,
                   hashMarker, procs, msg_id, doc, threat_sig, recv,
                   delivered, expired, crashes, evars, avars, svars, cvars,
                   tr_inbox, started, va_pc, va_final, va_sig, resets>>

\* "except Exception as e": xack(..., msg_id) to avoid a poison-pill loop
handle_error(w) ==
    /\ pc[w] = "except"
    /\ pel' = XAck(pel, msg_id[w])
    /\ reclaimed' = reclaimed \ {msg_id[w]}
    /\ Goto(w, "poll")
    /\ UNCHANGED <<pending, lastDelivered, groupExists, analyzed, idMarker,
                   hashMarker, latest_summary, procs, msg_id, doc,
                   threat_sig, processed_count, recv, delivered, expired,
                   crashes, evars, avars, svars, cvars, tvars>>

\* an awaited step after the workflow raises: mark_as_processed, xlen or
\* the forensic log inside "try: ... except Exception as exc: ... raise exc"
\* (485-504), mark_as_processed of the else branch (507) or the xack at 512;
\* the exception reaches "except Exception as e" of the loop body. The
\* number of such failures is bounded through the length of papers:analyzed.
step_raises(w) ==
    /\ pc[w] \in {"mark_id", "mark_hash", "ack"}
    /\ Len(analyzed) <= MaxRaises
    /\ Goto(w, "except")
    /\ UNCHANGED <<pending, lastDelivered, pel, groupExists, analyzed,
                   idMarker, hashMarker, latest_summary, procs, msg_id, doc,
                   threat_sig, processed_count, recv, delivered, expired,
                   crashes, evars, avars, xvars>>

WorkerStep(w) ==
    \/ boot(w) \/ reset_consumer_group_if_stuck(w) \/ poll_history(w) \/ poll_new(w) \/ unwrap(w)
    \/ dup_check_id(w) \/ dup_check_hash(w) \/ skip_duplicate(w)
    \/ run_workflow(w) \/ save_analyzed(w) \/ mark_id(w) \/ mark_hash(w)
    \/ ack(w) \/ handle_error(w)

(* The environment of the worker *)

\* a producer appends an entry to papers:pending (run_ingestion_cycle does
\* so through add_job; any other writer may append an arbitrary "data")
Enqueue(pool) ==
    /\ Len(pending) < MaxPending
    /\ \E p \in pool : pending' = Append(pending, p)
    /\ UNCHANGED <<lastDelivered, pel, groupExists, analyzed, idMarker,
                   hashMarker, latest_summary, procs, pc, msg_id, doc,
                   threat_sig, processed_count, recv, delivered, expired,
                   crashes, evars, avars, xvars>>

\* the producers of the one-worker specifications: documents that share an
\* id, documents that share a title fingerprint, documents that share
\* neither, and the two kinds of malformed payload
WorkerPayloads == { p \in Payloads : p.doc.title # <<"c">> }
enqueue == Enqueue(WorkerPayloads)

\* the producers of the curator specification: two unrelated documents,
\* each possibly enqueued several times, enough entries for processed_count
\* to reach 5
MaxBatch == 5        \* entries ever appended to papers:pending under SpecCurator
BatchPayloads == { p \in Payloads : p.doc.title \in {<<"A">>, <<"c">>} }
enqueue_batch ==
    /\ Len(pending) < MaxBatch
    /\ \E p \in BatchPayloads : pending' = Append(pending, p)
    /\ UNCHANGED <<lastDelivered, pel, groupExists, analyzed, idMarker,
                   hashMarker, latest_summary, procs, pc, msg_id, doc,
                   threat_sig, processed_count, recv, delivered, expired,
                   crashes, evars, avars, xvars>>

\* the producers of the two-process specification: two documents with the
\* same title fingerprint and different ids, each possibly enqueued twice
ConcPayloads == { p \in Payloads : p.doc.title \in {<<"A">>, <<"a", "!">>} }
enqueue_conc == Enqueue(ConcPayloads)

\* the producers of the crash specification: one document, possibly
\* enqueued more than once, and an undecodable payload
CrashPayloads ==
    { p \in Payloads : p.kind = "badjson" \/ p.doc.title = <<"A">> }
enqueue_crash == Enqueue(CrashPayloads)

\* the 30-day expiry of a marker key runs out
expire ==
    /\ Cardinality(expired) < MaxExpiries
    /\ \/ \E m \in idMarker :
            /\ <<"id", m.key>> \notin expired
            /\ idMarker' = idMarker \ {m}
            /\ expired' = expired \cup {<<"id", m.key>>}
            /\ UNCHANGED hashMarker
       \/ \E m \in hashMarker :
            /\ <<"hash", m.key>> \notin expired
            /\ hashMarker' = hashMarker \ {m}
            /\ expired' = expired \cup {<<"hash", m.key>>}
            /\ UNCHANGED idMarker
    /\ UNCHANGED <<pending, lastDelivered, pel, groupExists, analyzed,
                   latest_summary, procs, pc, msg_id, doc, threat_sig,
                   processed_count, recv, delivered, crashes, evars, avars, xvars>>

crash_LosesPel(w) ==
    /\ pc[w] \notin {"off", "boot"}
    /\ crashes < MaxCrashes
    /\ crashes' = crashes + 1
    /\ Goto(w, "boot")
    /\ pel' = XAck(pel, recv[w])
    /\ msg_id' = [msg_id EXCEPT ![w] = 0]
    /\ recv' = [recv EXCEPT ![w] = 0]
    /\ doc' = [doc EXCEPT ![w] = NoDoc]
    /\ threat_sig' = [threat_sig EXCEPT ![w] = FALSE]
    /\ processed_count' = [processed_count EXCEPT ![w] = 0]
    /\ UNCHANGED <<pending, lastDelivered, groupExists, analyzed,
                   idMarker, hashMarker, latest_summary, procs, delivered,
                   expired, evars, avars, xvars>>

\* the worker process dies at any point of the loop and is started again:
\* its local variables are lost, Redis keeps its state
crash(w) ==
    /\ pc[w] \notin {"off", "boot"}
    /\ crashes < MaxCrashes
    /\ crashes' = crashes + 1
    /\ Goto(w, "boot")
    /\ msg_id' = [msg_id EXCEPT ![w] = 0]
    /\ recv' = [recv EXCEPT ![w] = 0]
    /\ doc' = [doc EXCEPT ![w] = NoDoc]
    /\ threat_sig' = [threat_sig EXCEPT ![w] = FALSE]
    /\ processed_count' = [processed_count EXCEPT ![w] = 0]
    /\ UNCHANGED <<pending, lastDelivered, pel, groupExists, analyzed,
                   idMarker, hashMarker, latest_summary, procs, delivered,
                   expired, evars, avars, xvars>>

(* Maintenance: backfill_once.py, scripts/remove_duplicates.py and the *)
(* sidebar of the dashboard                                            *)

MaxResets == 1       \* runs of safe_reset_streams during a run of the model

\* safe_reset_streams: DEL papers:pending (the consumer group and its
\* in-flight list go with the key), DEL papers:analyzed, DEL of every key
\* processed:*, then XGROUP CREATE papers:pending agent_group 0 MKSTREAM.
\* The entries appended afterwards are numbered from 1 again; a worker gets
\* the payload of a delivery at "handle", so the reset is taken before or
\* after that point.
safe_reset_streams ==
    /\ \A w \in procs : pc[w] # "handle"
    /\ resets < MaxResets
    /\ resets' = resets + 1
    /\ pending' = <<>> /\ analyzed' = <<>>
    /\ idMarker' = {} /\ hashMarker' = {}
    /\ pel' = {} /\ lastDelivered' = 0 /\ groupExists' = TRUE
    /\ delivered' = {} /\ reclaimed' = {}
    /\ UNCHANGED <<latest_summary, procs, pc, msg_id, doc, threat_sig,
                   processed_count, recv, expired, crashes, evars, avars,
                   svars, cvars, curator_runs, tr_inbox, started, va_pc,
                   va_final, va_sig>>

\* the entries of s that the loop of remove_duplicates keeps: the first one
\* for every identifier; an analyzed payload has no "id" key, so the
\* identifier is its title
RECURSIVE FirstOccurrences(_, _)
FirstOccurrences(s, seen) ==
    IF s = <<>> THEN <<>>
    ELSE IF Head(s).doc.title \in seen
         THEN FirstOccurrences(Tail(s), seen)
         ELSE <<Head(s)>> \o FirstOccurrences(Tail(s),
                                              seen \cup {Head(s).doc.title})

\* remove_duplicates: XRANGE papers:analyzed - +, XDEL of every later entry
\* with an identifier already seen (the keys processed:<title> it sets
\* afterwards are not the keys is_duplicate looks up)
remove_duplicates ==
    /\ analyzed # FirstOccurrences(analyzed, {})
    /\ analyzed' = FirstOccurrences(analyzed, {})
    /\ UNCHANGED <<pending, lastDelivered, pel, groupExists, idMarker,
                   hashMarker, latest_summary, procs, pc, msg_id, doc,
                   threat_sig, processed_count, recv, delivered, expired,
                   crashes, evars, avars, xvars>>

\* "Clear & Reset" of the dashboard: DEL papers:analyzed and
\* DEL curator:latest_summary
clear_and_reset ==
    /\ analyzed # <<>> \/ latest_summary # "unset"
    /\ analyzed' = <<>>
    /\ latest_summary' = "unset"
    /\ UNCHANGED <<pending, lastDelivered, pel, groupExists, idMarker,
                   hashMarker, procs, pc, msg_id, doc, threat_sig,
                   processed_count, recv, delivered, expired, crashes,
                   evars, avars, xvars>>

-----------------------------------------------------------------------------
(* Per-document workflow: IngestionGraph with FilterAgent, MLSecurityFilter *)
(* and ExtractionAgent                                                      *)

MaxAnchors == 3      \* largest number of ML-anchor matches considered
MaxAmbiguous == 4    \* largest number of ambiguous-term matches considered
MaxSeverityInt == 6  \* largest integer severity considered

\* settings.filter_regex_threshold and settings.filter_auto_accept_threshold
\* (defaults of config.py)
filter_regex_threshold == 30
filter_auto_accept_threshold == 70

\* identity fields of a document: url (scheme and remainder), published_date
\* (a point in time) and source
Urls == { [scheme |-> "https", rest |-> "a"], [scheme |-> "http", rest |-> "b"],
          [scheme |-> "ftp", rest |-> "a"] }
Dates == {1, 2}
Sources == {"arxiv", "github"}

\* a document as the agents see it: what the six regular expressions of
\* MLSecurityFilter find in its text, whether doc.content is empty, and the
\* identity fields
Inputs ==
    [ kill : BOOLEAN, anchors : 0..MaxAnchors, strong : BOOLEAN,
      safety : BOOLEAN, ambiguous : 0..MaxAmbiguous, genai : BOOLEAN,
      content : {"empty", "text"},
      url : Urls, published_date : Dates, source : Sources ]

\* exceptions a structured-extraction call or a model construction raises
ApiError == [kind |-> "error", msg |-> "LLM API error"]
ValidationError == [kind |-> "error", msg |-> "validation error"]

(* Python values of the severity argument, tagged with their type: a str   *)
(* (its characters), an int, a bool (n is its integer value), a float n.0, *)
(* None                                                                    *)
PyStr(s) == [type |-> "str", s |-> s, n |-> 0]
PyInt(n) == [type |-> "int", s |-> <<>>, n |-> n]
PyBool(b) == [type |-> "bool", s |-> <<>>, n |-> IF b THEN 1 ELSE 0]
PyFloat(n) == [type |-> "float", s |-> <<>>, n |-> n]
PyNone == [type |-> "NoneType", s |-> <<>>, n |-> 0]

\* the severity strings considered: the five labels, two of them in another
\* case, and three strings that are no label
SeverityStrings ==
    { <<"C","r","i","t","i","c","a","l">>, <<"H","i","g","h">>,
      <<"M","e","d","i","u","m">>, <<"L","o","w">>, <<"I","n","f","o">>,
      <<"c","r","i","t","i","c","a","l">>, <<"H","I","G","H">>,
      <<"b","a","d">>, <<"3">>, <<>> }
\* the integers considered reach from -1 to MaxSeverityInt
SeverityValues ==
    { PyStr(s) : s \in SeverityStrings }
    \cup { PyInt(n) : n \in (0 - 1)..MaxSeverityInt }
    \cup { PyBool(b) : b \in BOOLEAN } \cup { PyFloat(3), PyNone }

\* ThreatSignature.convert_severity: the dict severity_map
severity_map ==
    (<<"c","r","i","t","i","c","a","l">> :> 5) @@ (<<"h","i","g","h">> :> 4)
    @@ (<<"m","e","d","i","u","m">> :> 3) @@ (<<"l","o","w">> :> 2)
    @@ (<<"i","n","f","o">> :> 1)

convert_severity_Clamps(v) ==
    IF v.type = "str"
    THEN PyInt(IF LowerSeq(v.s) \in DOMAIN severity_map
             THEN severity_map[LowerSeq(v.s)] ELSE 1)
    ELSE IF v.type \in {"int", "bool"}
         THEN (IF 1 <= v.n /\ v.n <= 5 THEN v
               ELSE IF v.n > 5 THEN PyInt(5) ELSE PyInt(1))
         ELSE PyInt(1)

\* ThreatSignature.convert_severity (mode="before"): isinstance(v, str),
\* then isinstance(v, int), which a bool passes too, then anything else
convert_severity(v) ==
    IF v.type = "str"
    THEN PyInt(IF LowerSeq(v.s) \in DOMAIN severity_map
             THEN severity_map[LowerSeq(v.s)] ELSE 1)
    ELSE IF v.type \in {"int", "bool"}
         THEN (IF 1 <= v.n /\ v.n <= 5 THEN v ELSE PyInt(1))
         ELSE PyInt(1)

\* ThreatSignature(**kw): the url must match ^https?://, the remaining
\* constrained fields (title length, attack_type and modality literals,
\* relevance_score range, summary_tldr length) are valid or not as a whole,
\* severity goes through convert_severity and is then stored as an int
ThreatSignature(kw) ==
    IF kw.fields_ok /\ kw.url.scheme \in {"http", "https"}
    THEN [kind |-> "ThreatSignature", msg |-> "", url |-> kw.url,
          published_date |-> kw.published_date, source |-> kw.source,
          severity |-> convert_severity(kw.severity).n]
    ELSE ValidationError

\* what a structured-extraction call for ExtractionResult can return: the
\* fields of the ExtractionResult (severity is a str) and the identity
\* fields that the model's answer may name besides them
Outputs ==
    [ fields_ok : BOOLEAN,
      severity : { PyStr(<<"C","r","i","t","i","c","a","l">>),
                   PyStr(<<"l","o","w">>), PyStr(<<"b","a","d">>) },
      url : Urls, published_date : Dates, source : Sources ]

evaluate_KillNeedsNoAnchor(f) ==
    IF f.kill /\ f.anchors < 1
    THEN [status |-> "REJECT", score |-> 0, confidence |-> 95]
    ELSE LET s2 == IF f.strong THEN 50 ELSE 0
             s3 == s2 + (IF f.safety THEN 30 ELSE 0)
             s4 == s3 + (IF f.ambiguous > 0 /\ f.anchors >= 1
                         THEN 20 * Min({f.ambiguous, 3}) ELSE 0)
             s5 == IF f.genai THEN (13 * s4) \div 10 ELSE s4
             score == s5 + (IF f.anchors >= 3 THEN 10 ELSE 0)
         IN [status |-> IF score >= 50 THEN "ACCEPT" ELSE "REJECT",
             score |-> score,
             confidence |-> Min({score, 99})]

evaluate_BoostLast(f) ==
    IF f.kill /\ f.anchors < 2
    THEN [status |-> "REJECT", score |-> 0, confidence |-> 95]
    ELSE LET s2 == IF f.strong THEN 50 ELSE 0
             s3 == s2 + (IF f.safety THEN 30 ELSE 0)
             s4 == s3 + (IF f.ambiguous > 0 /\ f.anchors >= 1
                         THEN 20 * Min({f.ambiguous, 3}) ELSE 0)
             s5 == s4 + (IF f.anchors >= 3 THEN 10 ELSE 0)
             score == IF f.genai THEN (13 * s5) \div 10 ELSE s5
         IN [status |-> IF score >= 50 THEN "ACCEPT" ELSE "REJECT",
             score |-> score,
             confidence |-> Min({score, 99})]

\* MLSecurityFilter.evaluate; int(score * 1.3) is (13 * score) \div 10 for
\* every score that can arise, confidence is kept in hundredths
evaluate(f) ==
    IF f.kill /\ f.anchors < 2
    THEN [status |-> "REJECT", score |-> 0, confidence |-> 95]
    ELSE LET s2 == IF f.strong THEN 50 ELSE 0
             s3 == s2 + (IF f.safety THEN 30 ELSE 0)
             s4 == s3 + (IF f.ambiguous > 0 /\ f.anchors >= 1
                         THEN 20 * Min({f.ambiguous, 3}) ELSE 0)
             s5 == IF f.genai THEN (13 * s4) \div 10 ELSE s4
             score == s5 + (IF f.anchors >= 3 THEN 10 ELSE 0)
         IN [status |-> IF score >= 50 THEN "ACCEPT" ELSE "REJECT",
             score |-> score,
             confidence |-> Min({score, 99})]

\* a FilterResult: reasoning is kept as the branch that wrote it, error is
\* the exception text embedded in the reasoning (None if there is none)
FilterResult(rel, why, e) ==
    [is_relevant |-> rel, reasoning |-> why, error |-> e]

\* filter_node: "return {**state, 'is_relevant': res.is_relevant}" once
\* FilterAgent.analyze has returned res
filter_returns(res) ==
    /\ filter_result' = res
    /\ is_relevant' = res.is_relevant
    /\ steps' = Append(steps, "filter")
    /\ wf_pc' = "check_relevance"

\* FilterAgent.analyze, stage 1: the pre-filter and the two thresholds
analyze_prefilter_LE ==
    /\ wf_pc = "filter"
    /\ regex_result' = evaluate(wf_doc)
    /\ LET r == evaluate(wf_doc)
       IN IF r.score <= filter_regex_threshold
          THEN filter_returns(FilterResult(FALSE, "Pre-filter rejected", None))
          ELSE IF r.score >= filter_auto_accept_threshold
               THEN filter_returns(FilterResult(TRUE, "Strong match", None))
               ELSE /\ wf_pc' = "filter_llm"
                    /\ UNCHANGED <<filter_result, is_relevant, steps>>
    /\ UNCHANGED <<qvars, latest_summary, evars, xvars, dd_pc, marked_doc,
                   checked_doc, dup_ret, wf_doc, threat_signature, llm_calls,
                   llm_error, wf_raised, ing_pc, papers, ing_i, cycles,
                   filter_log>>

analyze_prefilter ==
    /\ wf_pc = "filter"
    /\ regex_result' = evaluate(wf_doc)
    /\ LET r == evaluate(wf_doc)
       IN IF r.score < filter_regex_threshold
          THEN filter_returns(FilterResult(FALSE, "Pre-filter rejected", None))
          ELSE IF r.score >= filter_auto_accept_threshold
               THEN filter_returns(FilterResult(TRUE, "Strong match", None))
               ELSE /\ wf_pc' = "filter_llm"
                    /\ UNCHANGED <<filter_result, is_relevant, steps>>
    /\ UNCHANGED <<qvars, latest_summary, evars, xvars, dd_pc, marked_doc,
                   checked_doc, dup_ret, wf_doc, threat_signature, llm_calls,
                   llm_error, wf_raised, ing_pc, papers, ing_i, cycles,
                   filter_log>>

\* FilterAgent.analyze, stage 2: the structured-extraction call returns a
\* FilterResult, or it raises and the pre-filter's own decision is returned
analyze_llm_RejectOnError ==
    /\ wf_pc = "filter_llm"
    /\ llm_calls' = [llm_calls EXCEPT !.filter = @ + 1]
    /\ \/ /\ \E v \in BOOLEAN : filter_returns(FilterResult(v, "LLM", None))
          /\ UNCHANGED llm_error
       \/ \E e \in {ApiError, ValidationError} :
            /\ llm_error' = [llm_error EXCEPT !.filter = e]
            /\ filter_returns(
                  FilterResult(FALSE, "LLM error, using pre-filter", e))
    /\ UNCHANGED <<qvars, latest_summary, evars, xvars, dd_pc, marked_doc,
                   checked_doc, dup_ret, wf_doc, regex_result,
                   threat_signature, wf_raised, ing_pc, papers, ing_i, cycles,
                   filter_log>>

analyze_llm ==
    /\ wf_pc = "filter_llm"
    /\ llm_calls' = [llm_calls EXCEPT !.filter = @ + 1]
    /\ \/ /\ \E v \in BOOLEAN : filter_returns(FilterResult(v, "LLM", None))
          /\ UNCHANGED llm_error
       \/ \E e \in {ApiError, ValidationError} :
            /\ llm_error' = [llm_error EXCEPT !.filter = e]
            /\ filter_returns(
                  FilterResult(regex_result.status = "ACCEPT",
                               "LLM error, using pre-filter", e))
    /\ UNCHANGED <<qvars, latest_summary, evars, xvars, dd_pc, marked_doc,
                   checked_doc, dup_ret, wf_doc, regex_result,
                   threat_signature, wf_raised, ing_pc, papers, ing_i, cycles,
                   filter_log>>

\* conditional edge after "filter": "relevant" -> extract, "irrelevant" -> END
check_relevance_Always ==
    /\ wf_pc = "check_relevance"
    /\ wf_pc' = "extract"
    /\ UNCHANGED <<qvars, latest_summary, evars, xvars, dd_pc, marked_doc,
                   checked_doc, dup_ret, wf_doc, regex_result, filter_result,
                   is_relevant, threat_signature, steps, llm_calls, llm_error,
                   wf_raised, ing_pc, papers, ing_i, cycles, filter_log>>

check_relevance ==
    /\ wf_pc = "check_relevance"
    /\ wf_pc' = IF is_relevant THEN "extract" ELSE "END"
    /\ UNCHANGED <<qvars, latest_summary, evars, xvars, dd_pc, marked_doc,
                   checked_doc, dup_ret, wf_doc, regex_result, filter_result,
                   is_relevant, threat_signature, steps, llm_calls, llm_error,
                   wf_raised, ing_pc, papers, ing_i, cycles, filter_log>>

\* extraction_node: "return {**state, 'threat_signature': sig}" once
\* ExtractionAgent.process has returned sig
process_returns(sig) ==
    /\ threat_signature' = sig
    /\ steps' = Append(steps, "extract")
    /\ wf_pc' = "check_extraction"

\* ExtractionAgent.process up to its await: "if not doc.content: return None"
process_start ==
    /\ wf_pc = "extract"
    /\ IF wf_doc.content = "empty"
       THEN process_returns(None)
       ELSE /\ wf_pc' = "extract_llm"
            /\ UNCHANGED <<threat_signature, steps>>
    /\ UNCHANGED <<qvars, latest_summary, evars, xvars, dd_pc, marked_doc,
                   checked_doc, dup_ret, wf_doc, regex_result, filter_result,
                   is_relevant, llm_calls, llm_error, wf_raised, ing_pc,
                   papers, ing_i, cycles, filter_log>>

\* ExtractionAgent.process, the keyword arguments of ThreatSignature(...):
\* url, published_date and source come from doc, the rest from extraction
signature_kwargs_FromModel(out, d) ==
    [fields_ok |-> out.fields_ok, url |-> out.url,
     published_date |-> out.published_date, severity |-> out.severity,
     source |-> out.source]

signature_kwargs(out, d) ==
    [fields_ok |-> out.fields_ok, url |-> d.url,
     published_date |-> d.published_date, severity |-> out.severity,
     source |-> d.source]

\* ExtractionAgent.process, the try block: the structured-extraction call
\* raises, or it returns and the ThreatSignature construction raises, or
\* both succeed; "except Exception" returns None
process_llm_Propagates ==
    /\ wf_pc = "extract_llm"
    /\ llm_calls' = [llm_calls EXCEPT !.extract = @ + 1]
    /\ \/ \E out \in Outputs :
            /\ extraction' = out
            /\ LET sig == ThreatSignature(signature_kwargs(out, wf_doc))
               IN IF sig.kind = "error"
                  THEN /\ llm_error' = [llm_error EXCEPT !.extract = sig]
                       /\ wf_raised' = TRUE
                       /\ wf_pc' = "raised"
                       /\ UNCHANGED <<threat_signature, steps>>
                  ELSE /\ process_returns(sig)
                       /\ UNCHANGED <<llm_error, wf_raised>>
       \/ \E e \in {ApiError, ValidationError} :
            /\ llm_error' = [llm_error EXCEPT !.extract = e]
            /\ wf_raised' = TRUE
            /\ wf_pc' = "raised"
            /\ UNCHANGED <<threat_signature, steps, extraction>>
    /\ UNCHANGED <<qvars, latest_summary, evars, dd_pc, marked_doc,
                   checked_doc, dup_ret, wf_doc, regex_result, filter_result,
                   is_relevant, ing_pc, papers, ing_i, cycles, filter_log,
                   ts_pc, ts_kwargs, ts_obj, reclaimed, cvars, tvars>>

process_llm ==
    /\ wf_pc = "extract_llm"
    /\ llm_calls' = [llm_calls EXCEPT !.extract = @ + 1]
    /\ \/ \E out \in Outputs :
            /\ extraction' = out
            /\ LET sig == ThreatSignature(signature_kwargs(out, wf_doc))
               IN IF sig.kind = "error"
                  THEN /\ llm_error' = [llm_error EXCEPT !.extract = sig]
                       /\ process_returns(None)
                  ELSE /\ process_returns(sig)
                       /\ UNCHANGED llm_error
       \/ \E e \in {ApiError, ValidationError} :
            /\ llm_error' = [llm_error EXCEPT !.extract = e]
            /\ process_returns(None)
            /\ UNCHANGED extraction
    /\ UNCHANGED <<qvars, latest_summary, evars, dd_pc, marked_doc,
                   checked_doc, dup_ret, wf_doc, regex_result, filter_result,
                   is_relevant, wf_raised, ing_pc, papers, ing_i, cycles,
                   filter_log, ts_pc, ts_kwargs, ts_obj, reclaimed, cvars, tvars>>

\* conditional edge after "extract": "success" -> save, "failed" -> END
check_extraction ==
    /\ wf_pc = "check_extraction"
    /\ wf_pc' = IF Truthy(threat_signature) THEN "save" ELSE "END"
    /\ UNCHANGED <<qvars, latest_summary, evars, xvars, dd_pc, marked_doc,
                   checked_doc, dup_ret, wf_doc, regex_result, filter_result,
                   is_relevant, threat_signature, steps, llm_calls, llm_error,
                   wf_raised, ing_pc, papers, ing_i, cycles, filter_log>>

\* save_node: dataset_manager.save_threats([sig]) returns, or an exception
\* of it (building the frames, Dataset.from_pandas) leaves the workflow;
\* then the edge save -> END
save_node ==
    /\ wf_pc = "save"
    /\ steps' = Append(steps, "save")
    /\ \/ wf_pc' = "END" /\ UNCHANGED wf_raised
       \/ wf_pc' = "raised" /\ wf_raised' = TRUE
    /\ UNCHANGED <<qvars, latest_summary, evars, xvars, dd_pc, marked_doc,
                   checked_doc, dup_ret, wf_doc, regex_result, filter_result,
                   is_relevant, threat_signature, llm_calls, llm_error,
                   ing_pc, papers, ing_i, cycles, filter_log>>

\* one call ThreatSignature(**ts_kwargs) outside the agents
construct ==
    /\ ts_pc = "start"
    /\ ts_obj' = ThreatSignature(ts_kwargs)
    /\ ts_pc' = "done"
    /\ UNCHANGED <<qvars, latest_summary, evars, avars, extraction, ts_kwargs,
                   reclaimed, cvars, tvars>>

-----------------------------------------------------------------------------
(* Validation and saving of a workflow result: validate_analysis_result *)
(* and lines 466-509 of main                                            *)

MaxSaved == 2        \* entries appended to papers:analyzed under SpecValidate

\* n copies of the character c
Rep(c, n) == [i \in 1..n |-> c]
\* Python's "p in s" for strings
Contains(s, p) ==
    \E i \in 0..(Len(s) - Len(p)) : SubSeq(s, i + 1, i + Len(p)) = p

generic_placeholders == {
        <<"n", "o", " ", "s", "p", "e", "c", "i", "f", "i", "c", " ", "a",
          "t", "t", "a", "c", "k", " ", "m", "e", "n", "t", "i", "o", "n",
          "e", "d">>,
        <<"g", "e", "n", "e", "r", "i", "c", " ", "m", "a", "c", "h", "i",
          "n", "e", " ", "l", "e", "a", "r", "n", "i", "n", "g", " ", "s",
          "y", "s", "t", "e", "m">>,
        <<"u", "n", "s", "p", "e", "c", "i", "f", "i", "e", "d", " ", "v",
          "u", "l", "n", "e", "r", "a", "b", "i", "l", "i", "t", "y">> }

\* values of summary_tldr: empty, too short, of length 20 and 21, a
\* concrete finding, and three that hold a placeholder phrase, one of
\* them written with capital letters
Summaries == {
        <<>>,
        Rep("a", 20),
        Rep("a", 21),
        <<"t", "o", "o", " ", "s", "h", "o", "r", "t">>,
        <<"p", "r", "e", "f", "i", "x", " ", "j", "a", "i", "l", "b", "r",
          "e", "a", "k", " ", "b", "y", "p", "a", "s", "s", "e", "s", " ",
          "t", "h", "e", " ", "f", "i", "l", "t", "e", "r">>,
        <<"t", "h", "e", " ", "p", "a", "p", "e", "r", " ", "h", "a", "s",
          " ", "n", "o", " ", "s", "p", "e", "c", "i", "f", "i", "c", " ",
          "a", "t", "t", "a", "c", "k", " ", "m", "e", "n", "t", "i", "o",
          "n", "e", "d">>,
        <<"a", " ", "G", "e", "n", "e", "r", "i", "c", " ", "M", "a", "c",
          "h", "i", "n", "e", " ", "L", "e", "a", "r", "n", "i", "n", "g",
          " ", "s", "y", "s", "t", "e", "m">>,
        <<"A", "n", " ", "u", "n", "s", "p", "e", "c", "i", "f", "i", "e",
          "d", " ", "v", "u", "l", "n", "e", "r", "a", "b", "i", "l", "i",
          "t", "y", " ", "i", "n", " ", "L", "L", "M">> }

\* the ThreatSignature objects a workflow run can return, by the fields
\* validate_analysis_result reads: attack_type is one of the seven literals,
\* affected_models defaults to the empty list
Signatures ==
    [ kind : {"ThreatSignature"},
      attack_type : {"Jailbreak", "Other"},
      affected_models : {<<>>, <<"GPT-4">>},
      summary_tldr : Summaries ]

\* dict.get(key, default)
Get(d, key, default) == IF key \in DOMAIN d THEN d[key] ELSE default

validate_analysis_result_CaseSensitive(paper_title, analysis) ==
    LET summary == IF Get(analysis, "summary_tldr", <<>>) # <<>>
                   THEN Get(analysis, "summary_tldr", <<>>)
                   ELSE Get(analysis, "description", <<>>)
    IN /\ Get(analysis, "attack_type", "") # ""
       /\ Get(analysis, "affected_models", <<>>) # <<>>
       /\ Len(summary) > 20
       /\ ~\E phrase \in generic_placeholders : Contains(summary, phrase)

\* validate_analysis_result(paper_title, analysis): summary is summary_tldr,
\* or description when that is empty; all three required elements, and no
\* placeholder phrase inside summary.lower()
validate_analysis_result(paper_title, analysis) ==
    LET summary == IF Get(analysis, "summary_tldr", <<>>) # <<>>
                   THEN Get(analysis, "summary_tldr", <<>>)
                   ELSE Get(analysis, "description", <<>>)
    IN /\ Get(analysis, "attack_type", "") # ""
       /\ Get(analysis, "affected_models", <<>>) # <<>>
       /\ Len(summary) > 20
       /\ ~\E phrase \in generic_placeholders :
              Contains(LowerSeq(summary), phrase)

\* the document the worker is handling in this part of the model
va_doc == [id |-> 1, title |-> <<"A">>]

\* final_state = await ingestion_graph.workflow.ainvoke(initial_state);
\* threat_sig = final_state.get("threat_signature"): a ThreatSignature,
\* None, or the call raises
va_workflow ==
    /\ va_pc = "workflow"
    /\ \/ /\ va_final' \in Signatures \cup {None}
          /\ va_sig' = va_final'
          /\ va_pc' = "validate"
       \/ /\ va_pc' = "except"
          /\ UNCHANGED <<va_final, va_sig>>
    /\ UNCHANGED <<qvars, latest_summary, evars, avars, svars, reclaimed,
                   cvars, curator_runs, tr_inbox, started, resets>>

\* "if threat_sig:" validate its model_dump(); an invalid finding is
\* treated as irrelevant (threat_sig = None)
va_validate ==
    /\ va_pc = "validate"
    /\ va_sig' = IF va_sig # None
                     /\ ~validate_analysis_result(va_doc.title, va_sig)
                 THEN None ELSE va_sig
    /\ va_pc' = "save"
    /\ UNCHANGED <<qvars, latest_summary, evars, avars, svars, reclaimed,
                   cvars, curator_runs, tr_inbox, started, va_final, resets>>

\* "if threat_sig:" add_job("papers:analyzed", result_payload); the else
\* branch appends nothing; both go on to mark_as_processed
va_save ==
    /\ va_pc = "save"
    /\ analyzed' = IF va_sig # None THEN Append(analyzed, va_sig)
                   ELSE analyzed
    /\ va_pc' = "mark"
    /\ UNCHANGED <<pending, lastDelivered, pel, groupExists, idMarker,
                   hashMarker, procs, pc, msg_id, doc, threat_sig,
                   processed_count, recv, delivered, expired, crashes,
                   latest_summary, evars, avars, svars, reclaimed, cvars,
                   curator_runs, tr_inbox, started, va_final, va_sig,
                   resets>>

\* await mark_as_processed(redis_client, doc), on either branch
va_mark ==
    /\ va_pc = "mark"
    /\ idMarker' = SetEx(idMarker, va_doc.id, TTL)
    /\ hashMarker' = SetEx(hashMarker, compute_content_hash(va_doc.title), TTL)
    /\ va_pc' = "done"
    /\ UNCHANGED <<pending, lastDelivered, pel, groupExists, analyzed,
                   procs, pc, msg_id, doc, threat_sig, processed_count,
                   recv, delivered, expired, crashes, latest_summary, evars,
                   avars, svars, reclaimed, cvars, curator_runs, tr_inbox,
                   started, va_final, va_sig, resets>>

\* "except Exception as e": the entry is acknowledged, nothing is saved
va_except ==
    /\ va_pc = "except"
    /\ va_pc' = "done"
    /\ UNCHANGED <<qvars, latest_summary, evars, avars, svars, reclaimed,
                   cvars, curator_runs, tr_inbox, started, va_final, va_sig,
                   resets>>

\* the next delivery that reaches the workflow
va_next ==
    /\ va_pc = "done"
    /\ Len(analyzed) < MaxSaved
    /\ va_pc' = "workflow"
    /\ va_final' = None /\ va_sig' = None
    /\ UNCHANGED <<qvars, latest_summary, evars, avars, svars, reclaimed,
                   cvars, curator_runs, tr_inbox, started, resets>>

-----------------------------------------------------------------------------
(* The two dedup functions of run_agent_core.py, called on their own *)

MaxTitleLen == 3     \* longest title considered

\* characters of a title: a letter in both cases, a punctuation character
\* and the space
Chars == {"a", "A", "!", " "}
Titles == UNION { [1..n -> Chars] : n \in 0..MaxTitleLen }
IsPunct(c) == ~IsAlnum(c) /\ ~IsSpace(c)

\* is_duplicate: EXISTS processed:id:<id>, then EXISTS processed:hash:<hash>
is_duplicate_IdOnly(d) == HasIdMarker(d)

is_duplicate(d) == HasIdMarker(d) \/ HasHashMarker(d)

\* await mark_as_processed(redis_client, marked_doc): the two SETs
call_mark_as_processed ==
    /\ dd_pc = "start"
    /\ idMarker' = SetEx(idMarker, marked_doc.id, TTL)
    /\ hashMarker' =
          SetEx(hashMarker, compute_content_hash(marked_doc.title), TTL)
    /\ dd_pc' = "marked"
    /\ UNCHANGED <<pending, lastDelivered, pel, groupExists, analyzed,
                   latest_summary, procs, pc, msg_id, doc, threat_sig,
                   processed_count, recv, delivered, expired, crashes, evars,
                   marked_doc, checked_doc, dup_ret, wf_pc, wf_doc,
                   regex_result, filter_result, is_relevant,
                   threat_signature, steps, llm_calls, llm_error, wf_raised,
                   ing_pc, papers, ing_i, cycles, filter_log, xvars>>

\* a marker key of the marked document runs out
expire_marked == dd_pc = "marked" /\ expire

\* await is_duplicate(redis_client, checked_doc), before or after the
\* other document was marked
call_is_duplicate ==
    /\ dd_pc \in {"start", "marked"}
    /\ dup_ret' = is_duplicate(checked_doc)
    /\ dd_pc' = IF dd_pc = "marked" THEN "checked" ELSE "checked_unmarked"
    /\ UNCHANGED <<qvars, latest_summary, evars, xvars, marked_doc, checked_doc,
                   wf_pc, wf_doc, regex_result, filter_result, is_relevant,
                   threat_signature, steps, llm_calls, llm_error, wf_raised,
                   ing_pc, papers, ing_i, cycles, filter_log>>

-----------------------------------------------------------------------------
(* Ingestion service: run_ingestion_cycle of run_ingestion_service.py *)

MaxCycles == 2       \* ingestion cycles started during a run of the model

\* the documents the arXiv query returns while they are inside the
\* days_back window: two documents with different ids and fingerprints
Feed == { d \in DocPool : d.title \in {<<"A">>, <<"c">>} }
\* a result list of fetch_recent: any listing of feed documents
Listings ==
    {<<>>} \cup { <<d>> : d \in Feed }
           \cup { l \in Feed \X Feed : l[1] # l[2] }

\* the worker handled d and kept no ThreatSignature for it: both markers
\* are live and papers:analyzed has no entry for it
RejectedAndMarked(d) ==
    HasIdMarker(d) /\ HasHashMarker(d) /\ AnalyzedFor(d.id) = {}

\* lines 31-45: fetch the recent papers into the list papers (a failing
\* fetch ends the cycle through the outer except like an empty list does)
ingest_fetch ==
    /\ ing_pc = "idle"
    /\ cycles < MaxCycles
    /\ cycles' = cycles + 1
    /\ \E l \in Listings : papers' = l
    /\ ing_i' = 1
    /\ ing_pc' = "loop"
    /\ UNCHANGED <<qvars, latest_summary, evars, xvars, dd_pc, marked_doc,
                   checked_doc, dup_ret, wf_pc, wf_doc, regex_result,
                   filter_result, is_relevant, threat_signature, steps,
                   llm_calls, llm_error, wf_raised, filter_log>>

\* what the text of a fetched document can hold: every combination of the
\* pre-filter's findings that changes its score
FeedInputs ==
    { f \in Inputs : /\ f.content = "text" /\ f.source = "arxiv"
                     /\ f.published_date = 1 /\ f.url.scheme = "https"
                     /\ f.anchors \in {0, 3} /\ f.ambiguous \in {0, 1} }
\* what the structured-extraction call of stage 2 does: it returns a
\* verdict or raises
FilterLLMOutcomes ==
    { [kind |-> "result", msg |-> "ACCEPT"],
      [kind |-> "result", msg |-> "REJECT"], ApiError, ValidationError }

\* FilterAgent.analyze(title, abstract) as a function of what the text
\* holds and of what the stage-2 call does, if it is made
analyze(f, llm) ==
    LET r == evaluate(f)
    IN IF r.score < filter_regex_threshold
       THEN FilterResult(FALSE, "Pre-filter rejected", None)
       ELSE IF r.score >= filter_auto_accept_threshold
            THEN FilterResult(TRUE, "Strong match", None)
            ELSE IF llm.kind = "result"
                 THEN FilterResult(llm.msg = "ACCEPT", "LLM", None)
                 ELSE FilterResult(r.status = "ACCEPT",
                                   "LLM error, using pre-filter", llm)
\* the FilterResults analyze returns on the documents of the feed
AnalyzeResults ==
    { analyze(f, llm) : f \in FeedInputs, llm \in FilterLLMOutcomes }

ingest_paper_FailSafe ==
    /\ ing_pc = "loop"
    /\ ing_i <= Len(papers)
    /\ pending' = Append(pending, [kind |-> "doc", doc |-> papers[ing_i]])
    /\ \E res \in AnalyzeResults :
          filter_log' = filter_log \cup
             { [doc |-> papers[ing_i],
                rejected_before |-> RejectedAndMarked(papers[ing_i]),
                is_relevant |-> res.is_relevant,
                queued |-> pending' # pending] }
    /\ ing_i' = ing_i + 1
    /\ UNCHANGED <<lastDelivered, pel, groupExists, analyzed, idMarker,
                   hashMarker, latest_summary, procs, pc, msg_id, doc,
                   threat_sig, processed_count, recv, delivered, expired,
                   crashes, evars, dd_pc, marked_doc, checked_doc, dup_ret,
                   wf_pc, wf_doc, regex_result, filter_result, is_relevant,
                   threat_signature, steps, llm_calls, llm_error, wf_raised,
                   ing_pc, papers, cycles, xvars>>

\* one iteration of "for i, doc in enumerate(papers, 1)" (45-77):
\* filter_agent.analyze(doc.title, doc.content) is called on every fetched
\* document; a relevant verdict publishes the document with add_job, an
\* irrelevant one only counts it. The except branch ("fail-safe: accept on
\* error", 69-77) needs an exception out of the try block: analyze catches
\* what its stage-2 call raises and the FilterResults it builds validate,
\* and the Redis and log calls of the accepted branch are taken to succeed
ingest_paper ==
    /\ ing_pc = "loop"
    /\ ing_i <= Len(papers)
    /\ \E res \in AnalyzeResults :
          /\ pending' = IF res.is_relevant
                        THEN Append(pending,
                                    [kind |-> "doc", doc |-> papers[ing_i]])
                        ELSE pending
          /\ filter_log' = filter_log \cup
                { [doc |-> papers[ing_i],
                   rejected_before |-> RejectedAndMarked(papers[ing_i]),
                   is_relevant |-> res.is_relevant,
                   queued |-> pending' # pending] }
    /\ ing_i' = ing_i + 1
    /\ UNCHANGED <<lastDelivered, pel, groupExists, analyzed, idMarker,
                   hashMarker, latest_summary, procs, pc, msg_id, doc,
                   threat_sig, processed_count, recv, delivered, expired,
                   crashes, evars, dd_pc, marked_doc, checked_doc, dup_ret,
                   wf_pc, wf_doc, regex_result, filter_result, is_relevant,
                   threat_signature, steps, llm_calls, llm_error, wf_raised,
                   ing_pc, papers, cycles, xvars>>

\* the loop is exhausted: summary logged, the service sleeps until the next
\* scheduled or triggered cycle
ingest_done ==
    /\ ing_pc = "loop"
    /\ ing_i > Len(papers)
    /\ ing_pc' = "idle"
    /\ UNCHANGED <<qvars, latest_summary, evars, xvars, dd_pc, marked_doc,
                   checked_doc, dup_ret, wf_pc, wf_doc, regex_result,
                   filter_result, is_relevant, threat_signature, steps,
                   llm_calls, llm_error, wf_raised, papers, ing_i, cycles,
                   filter_log>>

-----------------------------------------------------------------------------
(* RedisClient (utils/redis_client.py): add_job, read_jobs, ack_job *)

MaxJobs == 2         \* entries that add_job appends to the stream
MaxAcks == 2         \* ack_job calls
MaxCount == 2        \* largest count argument of read_jobs

\* the consumer name the caller of read_jobs passes
ClientName == "client_1"

(* Python objects that json.dumps accepts, tagged with their type: a str  *)
(* (its characters), an int, a dict (its items as <<key, value>> pairs in *)
(* insertion order)                                                       *)
JStr(s) == [t |-> "str", s |-> s, n |-> 0, kv |-> <<>>]
JInt(n) == [t |-> "int", s |-> <<>>, n |-> n, kv |-> <<>>]
JDict(kv) == [t |-> "dict", s |-> <<>>, n |-> 0, kv |-> kv]
JSONDecodeError == [kind |-> "error", msg |-> "JSONDecodeError"]

Quote == "\""
Backslash == "\\"
DigitChars == <<"0", "1", "2", "3", "4", "5", "6", "7", "8", "9">>
IsDigit(c) == \E i \in 1..10 : DigitChars[i] = c
DigitValue(c) == (CHOOSE i \in 1..10 : DigitChars[i] = c) - 1

RECURSIVE Digits(_)
Digits(n) ==
    IF n < 10 THEN <<DigitChars[n + 1]>>
    ELSE Digits(n \div 10) \o <<DigitChars[(n % 10) + 1]>>

\* the body of a JSON string literal: quote and backslash are escaped
RECURSIVE EscapeStr(_)
EscapeStr(s) ==
    IF s = <<>> THEN <<>>
    ELSE (IF Head(s) \in {Quote, Backslash} THEN <<Backslash, Head(s)>>
          ELSE <<Head(s)>>) \o EscapeStr(Tail(s))

\* json.dumps(obj) with the default separators ", " and ": "
RECURSIVE dumps(_)
RECURSIVE dumps_items(_)
dumps(v) ==
    CASE v.t = "str" -> <<Quote>> \o EscapeStr(v.s) \o <<Quote>>
      [] v.t = "int" -> (IF v.n < 0 THEN <<"-">> \o Digits(0 - v.n)
                         ELSE Digits(v.n))
      [] v.t = "dict" -> <<"{">> \o dumps_items(v.kv) \o <<"}">>
dumps_items(kv) ==
    IF kv = <<>> THEN <<>>
    ELSE dumps(JStr(kv[1][1])) \o <<":", " ">> \o dumps(kv[1][2])
         \o (IF Len(kv) > 1 THEN <<",", " ">> \o dumps_items(Tail(kv))
             ELSE <<>>)

(* json.loads(text): a recursive-descent parser; a parse step yields the *)
(* value and the rest of the text, or fails                              *)
Fail == [ok |-> FALSE, val |-> JInt(0), rest |-> <<>>]
Ok(v, r) == [ok |-> TRUE, val |-> v, rest |-> r]

RECURSIVE SkipWs(_)
SkipWs(s) == IF s # <<>> /\ Head(s) = " " THEN SkipWs(Tail(s)) ELSE s

\* a string literal after its opening quote
RECURSIVE ScanString(_, _)
ScanString(s, acc) ==
    IF s = <<>> THEN Fail
    ELSE IF Head(s) = Quote THEN Ok(JStr(acc), Tail(s))
    ELSE IF Head(s) = Backslash
         THEN (IF Len(s) >= 2 /\ s[2] \in {Quote, Backslash}
               THEN ScanString(Tail(Tail(s)), Append(acc, s[2]))
               ELSE Fail)
         ELSE ScanString(Tail(s), Append(acc, Head(s)))

RECURSIVE ScanInt(_, _)
ScanInt(s, acc) ==
    IF s # <<>> /\ IsDigit(Head(s))
    THEN ScanInt(Tail(s), 10 * acc + DigitValue(Head(s)))
    ELSE Ok(JInt(acc), s)

RECURSIVE ParseValue(_)
RECURSIVE ParseMembers(_, _)
ParseValue(s0) ==
    LET s == SkipWs(s0)
    IN IF s = <<>> THEN Fail
       ELSE IF Head(s) = Quote THEN ScanString(Tail(s), <<>>)
       ELSE IF IsDigit(Head(s)) THEN ScanInt(s, 0)
       ELSE IF Head(s) = "-"
            THEN (IF Len(s) >= 2 /\ IsDigit(s[2])
                  THEN LET r == ScanInt(Tail(s), 0)
                       IN Ok(JInt(0 - r.val.n), r.rest)
                  ELSE Fail)
       ELSE IF Head(s) = "{"
            THEN LET t == SkipWs(Tail(s))
                 IN IF t # <<>> /\ Head(t) = "}" THEN Ok(JDict(<<>>), Tail(t))
                    ELSE ParseMembers(t, <<>>)
       ELSE Fail
\* the members of an object, s starting at a key
ParseMembers(s, acc) ==
    IF s = <<>> \/ Head(s) # Quote THEN Fail
    ELSE LET k == ScanString(Tail(s), <<>>)
         IN IF ~k.ok THEN Fail
            ELSE LET c == SkipWs(k.rest)
                 IN IF c = <<>> \/ Head(c) # ":" THEN Fail
                    ELSE LET v == ParseValue(Tail(c))
                         IN IF ~v.ok THEN Fail
                            ELSE LET r == SkipWs(v.rest)
                                     acc2 == Append(acc, <<k.val.s, v.val>>)
                                 IN IF r = <<>> THEN Fail
                                    ELSE IF Head(r) = "}"
                                         THEN Ok(JDict(acc2), Tail(r))
                                    ELSE IF Head(r) = ","
                                         THEN ParseMembers(SkipWs(Tail(r)), acc2)
                                    ELSE Fail

loads(s) ==
    LET r == ParseValue(s)
    IN IF r.ok /\ SkipWs(r.rest) = <<>> THEN r.val ELSE JSONDecodeError

\* payloads handed to add_job: a dict with a string that holds a quote and
\* a backslash and with an int, a dict with a nested dict, and a dict whose
\* string value is itself the JSON text of a dict
NestedPayload == JDict(<< <<<<"a">>, JDict(<< <<<<"b">>, JInt(1)>> >>)>> >>)
ClientPayloads ==
    { JDict(<< <<<<"a">>, JStr(<<"a", Quote, Backslash>>)>>,
               <<<<"b">>, JInt(10)>> >>),
      NestedPayload,
      JDict(<< <<<<"a">>, JStr(dumps(NestedPayload))>> >>) }

add_job_EncodesTwice(payload) ==
    /\ Len(pending) < MaxJobs
    /\ pending' = Append(pending, dumps(JStr(dumps(payload))))
    /\ cl_added' = Append(cl_added, payload)
    /\ UNCHANGED <<lastDelivered, pel, groupExists, analyzed, idMarker,
                   hashMarker, latest_summary, procs, pc, msg_id, doc,
                   threat_sig, processed_count, recv, delivered, expired,
                   crashes, evars, avars, svars, reclaimed, cl_pc, cl_results,
                   acked, cl_error, cl_before, tvars>>

\* RedisClient.add_job(queue_name, payload): XADD <stream> * data
\* <json.dumps(payload)>; the id that XADD returns is the position of the
\* new entry, cl_added keeps the payload object under that id
add_job(payload) ==
    /\ Len(pending) < MaxJobs
    /\ pending' = Append(pending, dumps(payload))
    /\ cl_added' = Append(cl_added, payload)
    /\ UNCHANGED <<lastDelivered, pel, groupExists, analyzed, idMarker,
                   hashMarker, latest_summary, procs, pc, msg_id, doc,
                   threat_sig, processed_count, recv, delivered, expired,
                   crashes, evars, avars, svars, reclaimed, cl_pc, cl_results,
                   acked, cl_error, cl_before, tvars>>

\* RedisClient.read_jobs, "# Ensure group exists": xgroup_create(queue_name,
\* consumer_group, mkstream=True), whose start id defaults to "$" (the last
\* entry of the stream); a BUSYGROUP ResponseError is swallowed
read_jobs_create ==
    /\ cl_pc = "idle"
    /\ LET g == XGroupCreate(groupExists, lastDelivered, Len(pending))
       IN groupExists' = g.exists /\ lastDelivered' = g.cursor
    /\ cl_before' = IF groupExists THEN {} ELSE 1..Len(pending)
    /\ cl_error' = None
    /\ cl_pc' = "read"
    /\ UNCHANGED <<pending, pel, analyzed, idMarker, hashMarker,
                   latest_summary, procs, pc, msg_id, doc, threat_sig,
                   processed_count, recv, delivered, expired, crashes, evars,
                   avars, svars, reclaimed, cl_results, cl_added, acked,
                   tvars>>

\* the list read_jobs builds from the entries lo..hi it was handed: each
\* "data" field decoded once, an entry that does not decode is logged and
\* left out
RECURSIVE ResultsOf(_, _)
ResultsOf(lo, hi) ==
    IF lo > hi THEN <<>>
    ELSE LET payload == loads(pending[lo])
         IN (IF payload = JSONDecodeError THEN <<>>
             ELSE << [msg_id |-> lo, payload |-> payload] >>)
            \o ResultsOf(lo + 1, hi)

\* RedisClient.read_jobs, XREADGROUP <group> <consumer> COUNT <count>
\* STREAMS <stream> ">" and the decoding loop; a read that times out
\* returns the empty list
read_jobs_read ==
    /\ cl_pc = "read"
    /\ \E count \in 1..MaxCount :
          LET hi == Min({Len(pending), lastDelivered + count})
              new == (lastDelivered + 1)..hi
          IN /\ lastDelivered' = IF new = {} THEN lastDelivered ELSE hi
             /\ pel' = pel \cup { [id |-> i, consumer |-> ClientName] : i \in new }
             /\ delivered' = delivered \cup new
             /\ cl_results' = ResultsOf(lastDelivered + 1, hi)
    /\ cl_before' = {}
    /\ cl_error' = None
    /\ cl_pc' = "idle"
    /\ UNCHANGED <<pending, groupExists, analyzed, idMarker, hashMarker,
                   latest_summary, procs, pc, msg_id, doc, threat_sig,
                   processed_count, recv, expired, crashes, evars, avars,
                   svars, reclaimed, cl_added, acked, tvars>>

\* RedisClient.ack_job(queue_name, consumer_group, msg_id): XACK
ack_job(id) ==
    /\ cl_pc = "idle"
    /\ Len(acked) < MaxAcks
    /\ pel' = XAck(pel, id)
    /\ reclaimed' = reclaimed \ {id}
    /\ acked' = Append(acked, id)
    /\ cl_error' = None
    /\ UNCHANGED <<pending, lastDelivered, groupExists, analyzed, idMarker,
                   hashMarker, latest_summary, procs, pc, msg_id, doc,
                   threat_sig, processed_count, recv, delivered, expired,
                   crashes, evars, avars, svars, cl_pc, cl_results, cl_added,
                   cl_before, tvars>>

-----------------------------------------------------------------------------
(* Specifications *)

EditorialIdle ==
    /\ caller = "none" /\ messages = <<>> /\ cw_pc = "off" /\ ed_pc = "off"
    /\ threats = <<>> /\ current_briefing = None /\ critique_result = "none"
    /\ retry_count = 0 /\ final_output = None /\ ret = None
    /\ calls = NoCalls /\ callFailed = FALSE /\ critiqued = None
    /\ revises = 0 /\ propagated = FALSE

DedupIdle ==
    /\ dd_pc = "off" /\ marked_doc = NoDoc /\ checked_doc = NoDoc
    /\ dup_ret = FALSE
\* no trigger message published, no curator run made, no result validated
TriggerIdle ==
    /\ curator_runs = 0 /\ tr_inbox = [core |-> <<>>, ingest |-> <<>>]
    /\ started = {}
    /\ resets = 0
    /\ va_pc = "off" /\ va_final = None /\ va_sig = None
ClientIdle ==
    /\ cl_pc = "off" /\ cl_results = <<>> /\ cl_added = <<>> /\ acked = <<>>
    /\ cl_error = None /\ cl_before = {}
    /\ TriggerIdle
ConstructorIdle ==
    /\ ts_pc = "off" /\ ts_kwargs = None /\ ts_obj = None /\ ClientIdle
WorkflowIdle ==
    /\ wf_pc = "off" /\ wf_doc = None /\ regex_result = None
    /\ filter_result = None /\ is_relevant = FALSE
    /\ threat_signature = None /\ steps = <<>> /\ llm_calls = NoLLMCalls
    /\ llm_error = NoErrors /\ wf_raised = FALSE
    /\ extraction = None /\ ConstructorIdle
IngestIdle(l) ==
    /\ ing_pc = l /\ papers = <<>> /\ ing_i = 0 /\ cycles = 0
    /\ filter_log = {}
AgentsIdle == DedupIdle /\ WorkflowIdle /\ IngestIdle("off")

QueueInit(P) ==
    /\ pending = <<>> /\ lastDelivered = 0 /\ pel = {} /\ groupExists = FALSE
    /\ analyzed = <<>> /\ idMarker = {} /\ hashMarker = {}
    /\ procs = P
    /\ pc = [w \in Workers |-> IF w \in P THEN "boot" ELSE "off"]
    /\ msg_id = [w \in Workers |-> 0]
    /\ doc = [w \in Workers |-> NoDoc]
    /\ threat_sig = [w \in Workers |-> FALSE]
    /\ processed_count = [w \in Workers |-> 0]
    /\ recv = [w \in Workers |-> 0]
    /\ delivered = {} /\ expired = {} /\ crashes = 0
    /\ reclaimed = {}

\* one worker process, no crash
Init ==
    QueueInit({"p1"}) /\ latest_summary = "unset" /\ EditorialIdle /\ AgentsIdle
WorkerNext ==
    \/ \E w \in procs : boot(w)
    \/ \E w \in procs : reset_consumer_group_if_stuck(w)
    \/ \E w \in procs : poll_history(w)
    \/ \E w \in procs : poll_new(w)
    \/ \E w \in procs : unwrap(w)
    \/ \E w \in procs : dup_check_id(w)
    \/ \E w \in procs : dup_check_hash(w)
    \/ \E w \in procs : skip_duplicate(w)
    \/ \E w \in procs : run_workflow(w)
    \/ \E w \in procs : save_analyzed(w)
    \/ \E w \in procs : mark_id(w)
    \/ \E w \in procs : mark_hash(w)
    \/ \E w \in procs : ack(w)
    \/ \E w \in procs : handle_error(w)
Next == WorkerNext \/ enqueue \/ expire
Spec == Init /\ [][Next]_vars

\* one worker process fed long enough for the "% 5" check of the handling
\* loop to come true
NextCurator == WorkerNext \/ enqueue_batch
SpecCurator == Init /\ [][NextCurator]_vars


\* one worker process that may crash and restart; the event loop keeps
\* running the worker as long as it has a step to take
NextCrash == WorkerNext \/ enqueue_crash \/ (\E w \in procs : crash(w))
SpecCrashFair ==
    Init /\ [][NextCrash]_vars /\ \A w \in Workers : WF_vars(WorkerStep(w))

\* one worker process that may crash, the producers, and an operator who
\* runs the maintenance scripts and uses the sidebar of the dashboard
NextMaint ==
    \/ NextCrash
    \/ safe_reset_streams \/ remove_duplicates \/ clear_and_reset
SpecMaint == Init /\ [][NextMaint]_vars

\* one worker process that does not crash; the Redis calls that follow the
\* workflow may raise
NextRaise == WorkerNext \/ enqueue_crash \/ (\E w \in procs : step_raises(w))
SpecRaise == Init /\ [][NextRaise]_vars

\* the ingestion service as the producer of a worker that does not crash
InitIngest ==
    /\ QueueInit({"p1"}) /\ latest_summary = "unset" /\ EditorialIdle
    /\ DedupIdle /\ WorkflowIdle /\ IngestIdle("idle")
NextIngest == WorkerNext \/ ingest_fetch \/ ingest_paper \/ ingest_done
SpecIngest == InitIngest /\ [][NextIngest]_vars

(* Manual triggers: the channel agent:trigger and its two subscribers *)

MaxTriggers == 1     \* messages a subscriber has received and not handled yet

\* what is published on the channel: the three trigger names, and the
\* message the "Process Queue" button of the dashboard sends
TriggerMessages ==
    {"ingest", "process_batch", "process_with_curator", "process_all"}

\* PUBLISH agent:trigger m: every subscriber receives the message
publish(m) ==
    /\ Len(tr_inbox.core) < MaxTriggers /\ Len(tr_inbox.ingest) < MaxTriggers
    /\ tr_inbox' = [core |-> Append(tr_inbox.core, m),
                    ingest |-> Append(tr_inbox.ingest, m)]
    /\ UNCHANGED <<qvars, latest_summary, evars, avars, svars, reclaimed,
                   cvars, curator_runs, started, va_pc, va_final, va_sig,
                   resets>>

\* listen_for_triggers of run_agent_core with manual_trigger_callback:
\* "process_with_curator" calls run_curator_workflow; every other message
\* takes the else branch, the forced batch read (XLEN, then XREADGROUP
\* "0-0" count=100, whose result is only logged)
core_listen ==
    /\ tr_inbox.core # <<>>
    /\ tr_inbox' = [tr_inbox EXCEPT !.core = Tail(@)]
    /\ IF Head(tr_inbox.core) = "process_with_curator"
       THEN /\ started' = started \cup
                  {[msg |-> Head(tr_inbox.core), workflow |-> "editorial"]}
            /\ IF analyzed # <<>>
               THEN latest_summary' \in {"briefing", "error"}
               ELSE UNCHANGED latest_summary
       ELSE /\ started' = started \cup
                  {[msg |-> Head(tr_inbox.core), workflow |-> "process_batch"]}
            /\ UNCHANGED latest_summary
    /\ UNCHANGED <<qvars, evars, avars, svars, reclaimed, cvars,
                   curator_runs, va_pc, va_final, va_sig, resets>>

\* listen_for_triggers of run_ingestion_service: "ingest" awaits
\* run_ingestion_cycle, whose first step (the fetch) is taken here and whose
\* loop follows; any other message is dropped
ingest_listen ==
    /\ tr_inbox.ingest # <<>>
    /\ ing_pc = "idle"
    /\ tr_inbox' = [tr_inbox EXCEPT !.ingest = Tail(@)]
    /\ IF Head(tr_inbox.ingest) = "ingest"
       THEN /\ cycles < MaxCycles
            /\ cycles' = cycles + 1
            /\ \E l \in Listings : papers' = l
            /\ ing_i' = 1
            /\ ing_pc' = "loop"
            /\ started' = started \cup
                  {[msg |-> "ingest", workflow |-> "ingest"]}
       ELSE UNCHANGED <<cycles, papers, ing_i, ing_pc, started>>
    /\ UNCHANGED <<qvars, latest_summary, evars, svars, reclaimed, cvars,
                   curator_runs, va_pc, va_final, va_sig, resets,
                   dd_pc, marked_doc, checked_doc, dup_ret, wf_pc, wf_doc,
                   regex_result, filter_result, is_relevant,
                   threat_signature, steps, llm_calls, llm_error, wf_raised,
                   filter_log>>

\* the dashboard publishing on agent:trigger, the two services listening
InitTrigger ==
    /\ QueueInit({}) /\ latest_summary = "unset" /\ EditorialIdle
    /\ DedupIdle /\ WorkflowIdle /\ IngestIdle("idle")
NextTrigger ==
    \/ \E m \in TriggerMessages : publish(m)
    \/ core_listen
    \/ ingest_listen
    \/ ingest_paper
    \/ ingest_done
SpecTrigger == InitTrigger /\ [][NextTrigger]_vars

\* the part of the handling between the workflow call and the
\* acknowledgment, for one delivery after another
InitValidate ==
    /\ QueueInit({}) /\ latest_summary = "unset" /\ EditorialIdle
    /\ DedupIdle /\ IngestIdle("off")
    /\ wf_pc = "off" /\ wf_doc = None /\ regex_result = None
    /\ filter_result = None /\ is_relevant = FALSE
    /\ threat_signature = None /\ steps = <<>> /\ llm_calls = NoLLMCalls
    /\ llm_error = NoErrors /\ wf_raised = FALSE /\ extraction = None
    /\ ts_pc = "off" /\ ts_kwargs = None /\ ts_obj = None
    /\ cl_pc = "off" /\ cl_results = <<>> /\ cl_added = <<>> /\ acked = <<>>
    /\ cl_error = None /\ cl_before = {}
    /\ curator_runs = 0 /\ tr_inbox = [core |-> <<>>, ingest |-> <<>>]
    /\ started = {} /\ resets = 0
    /\ va_pc = "workflow" /\ va_final = None /\ va_sig = None
NextValidate ==
    \/ va_workflow \/ va_validate \/ va_save \/ va_mark \/ va_except
    \/ va_next
SpecValidate == InitValidate /\ [][NextValidate]_vars

\* mark_as_processed(d) followed, expiries permitting, by is_duplicate(d')
\* for any two documents with bounded titles
InitDedup ==
    /\ QueueInit({}) /\ latest_summary = "unset" /\ EditorialIdle
    /\ WorkflowIdle /\ IngestIdle("off")
    /\ dd_pc = "start" /\ dup_ret = FALSE
    /\ marked_doc \in { [id |-> 1, title |-> t] : t \in Titles }
    /\ checked_doc \in { [id |-> i, title |-> t] : i \in {1, 2}, t \in Titles }
NextDedup == call_mark_as_processed \/ expire_marked \/ call_is_duplicate
SpecDedup == InitDedup /\ [][NextDedup]_vars

\* one invocation of the compiled per-document workflow on any document:
\* initial_state = {"doc": doc, "is_relevant": False,
\* "threat_signature": None}, entry point "filter"
InitWorkflow ==
    /\ QueueInit({}) /\ latest_summary = "unset" /\ EditorialIdle
    /\ DedupIdle /\ IngestIdle("off") /\ ConstructorIdle
    /\ wf_pc = "filter" /\ regex_result = None
    /\ wf_doc \in { d \in Inputs : /\ d.url = [scheme |-> "https", rest |-> "a"]
                                   /\ d.published_date = 1
                                   /\ d.source = "arxiv" }
    /\ filter_result = None /\ is_relevant = FALSE
    /\ threat_signature = None /\ steps = <<>> /\ llm_calls = NoLLMCalls
    /\ llm_error = NoErrors /\ wf_raised = FALSE /\ extraction = None
NextWorkflow ==
    \/ analyze_prefilter \/ analyze_llm \/ check_relevance
    \/ process_start \/ process_llm \/ check_extraction \/ save_node
SpecWorkflow == InitWorkflow /\ [][NextWorkflow]_vars
\* the event loop runs the coroutine of the invocation until it ends
SpecWorkflowFair == SpecWorkflow /\ WF_vars(NextWorkflow)

\* the workflow from its "extract" node on, for documents with any identity
\* fields that the filter accepted without a call ("Strong match")
StrongMatch == [kill |-> FALSE, anchors |-> 0, strong |-> TRUE, safety |-> TRUE,
                ambiguous |-> 0, genai |-> FALSE]
InitExtract ==
    /\ QueueInit({}) /\ latest_summary = "unset" /\ EditorialIdle
    /\ DedupIdle /\ IngestIdle("off") /\ ConstructorIdle
    /\ wf_pc = "extract"
    /\ wf_doc \in { d \in Inputs : \A k \in DOMAIN StrongMatch : d[k] = StrongMatch[k] }
    /\ regex_result = evaluate(wf_doc)
    /\ filter_result = FilterResult(TRUE, "Strong match", None)
    /\ is_relevant = TRUE
    /\ threat_signature = None /\ steps = <<"filter">>
    /\ llm_calls = NoLLMCalls /\ llm_error = NoErrors /\ wf_raised = FALSE
    /\ extraction = None
NextExtract == process_start \/ process_llm \/ check_extraction \/ save_node
SpecExtract == InitExtract /\ [][NextExtract]_vars

\* one call of the ThreatSignature constructor with any severity argument
SignatureArgs ==
    [ fields_ok : BOOLEAN, url : Urls, published_date : {1},
      severity : SeverityValues, source : {"arxiv"} ]
InitSignature ==
    /\ QueueInit({}) /\ latest_summary = "unset" /\ EditorialIdle
    /\ DedupIdle /\ IngestIdle("off")
    /\ wf_pc = "off" /\ wf_doc = None /\ regex_result = None
    /\ filter_result = None /\ is_relevant = FALSE
    /\ threat_signature = None /\ steps = <<>> /\ llm_calls = NoLLMCalls
    /\ llm_error = NoErrors /\ wf_raised = FALSE /\ extraction = None
    /\ ts_pc = "start" /\ ts_kwargs \in SignatureArgs /\ ts_obj = None
    /\ ClientIdle
NextSignature == construct
SpecSignature == InitSignature /\ [][NextSignature]_vars

\* the stream papers:pending and its group under the calls that create the
\* group and move its cursor: a process using RedisClient (add_job by a
\* producer; read_jobs and ack_job by a consumer), and the startup of a
\* worker, which may crash and start again
InitClient ==
    /\ QueueInit({"p1"}) /\ latest_summary = "unset" /\ EditorialIdle
    /\ DedupIdle /\ IngestIdle("off")
    /\ wf_pc = "off" /\ wf_doc = None /\ regex_result = None
    /\ filter_result = None /\ is_relevant = FALSE
    /\ threat_signature = None /\ steps = <<>> /\ llm_calls = NoLLMCalls
    /\ llm_error = NoErrors /\ wf_raised = FALSE /\ extraction = None
    /\ ts_pc = "off" /\ ts_kwargs = None /\ ts_obj = None
    /\ cl_pc = "idle" /\ cl_results = <<>> /\ cl_added = <<>> /\ acked = <<>>
    /\ cl_error = None /\ cl_before = {}
    /\ TriggerIdle
NextClient ==
    \/ \E payload \in ClientPayloads : add_job(payload)
    \/ read_jobs_create
    \/ read_jobs_read
    \/ \E id \in 1..MaxJobs : ack_job(id)
    \/ \E w \in procs : boot(w)
    \/ \E w \in procs : crash(w)
SpecClient == InitClient /\ [][NextClient]_vars

\* two worker processes started on the same stream and group
InitConc ==
    QueueInit(Workers) /\ latest_summary = "unset" /\ EditorialIdle /\ AgentsIdle
NextConc == WorkerNext \/ enqueue_conc
SpecConc == InitConc /\ [][NextConc]_vars

\* one editorial run
InitEditorial ==
    /\ QueueInit({}) /\ AgentsIdle
    /\ latest_summary = "unset"
    /\ caller \in {"curator", "direct"}
    /\ messages \in UNION { [1..n -> BOOLEAN] : n \in 0..MaxThreats }
    /\ (caller = "direct" => messages = <<>>)
    /\ cw_pc = "start" /\ ed_pc = "off"
    /\ threats = <<>> /\ current_briefing = None /\ critique_result = "none"
    /\ retry_count = 0 /\ final_output = None /\ ret = None
    /\ calls = NoCalls /\ callFailed = FALSE /\ critiqued = None
    /\ revises = 0 /\ propagated = FALSE
NextEditorial ==
    \/ curator_read \/ direct_call
    \/ draft_node \/ critique_node \/ route_after_critique \/ revise_node
    \/ run_return
    \/ curator_store \/ curator_except \/ direct_done
SpecEditorial == InitEditorial /\ [][NextEditorial]_vars
\* the event loop runs the coroutine of the run until it returns or raises
SpecEditorialFair == SpecEditorial /\ WF_vars(NextEditorial)

-----------------------------------------------------------------------------
(* Properties of the queue worker *)

C2_EventuallyAcked ==
    \A i \in 1..MaxPending :
        []<>(Len(pending) < i \/ (i \in delivered /\ i \notin PelIds))

\* an entry was in-flight when the worker crashed and is acknowledged now
C2_Witness ==
    /\ crashes > 0
    /\ \E i \in delivered :
          /\ i \notin PelIds
          /\ pending[i].kind = "doc"
          /\ \E w \in procs : recv[w] = i /\ pc[w] = "poll"

\* C3: with one worker handling the entries one after another, the analyzed
\* stream holds at most one entry for a document id whose id marker has not
\* expired.
C3_OneAnalyzedPerId ==
    \A i, j \in 1..Len(analyzed) :
        (i < j /\ analyzed[i].doc.id = analyzed[j].doc.id)
            => <<"id", analyzed[i].doc.id>> \in expired

\* two entries carrying the same document id were both handled and
\* acknowledged, and only the first one produced an analyzed entry
C3_Witness ==
    /\ expired = {}
    /\ \E i, j \in delivered \ PelIds :
          /\ i < j
          /\ pending[i].kind = "doc" /\ pending[j].kind = "doc"
          /\ pending[i].doc.id = pending[j].doc.id
          /\ Cardinality(AnalyzedFor(pending[i].doc.id)) = 1
          /\ \A k \in AnalyzedFor(pending[i].doc.id) : analyzed[k].src = i
          /\ \E w \in procs : recv[w] = j /\ pc[w] = "poll"

-----------------------------------------------------------------------------
(* Properties of the editorial workflow *)

\* C5: a run on a non-empty batch issues at most MAX_RETRIES + 1 critique
\* calls, comes to an end, ends by returning when every call is answered,
\* and then returns a briefing (not None).
C5_BoundedCritiquesAndResult ==
    /\ [](threats # <<>> => calls.critique <= MAX_RETRIES + 1)
    /\ []((threats # <<>> /\ ed_pc = "raised") => callFailed)
    /\ []((threats # <<>> /\ ed_pc = "returned") => Truthy(ret))
    /\ (threats # <<>> /\ ed_pc = "draft") ~> (ed_pc \in {"returned", "raised"})

\* the critic rejected every draft of a run on a non-empty batch and the
\* run returned after the fourth critique
C5_Witness ==
    /\ threats # <<>> /\ ~callFailed
    /\ calls.critique = MAX_RETRIES + 1
    /\ critique_result = "rejected"
    /\ ed_pc = "returned" /\ Truthy(ret)

\* C6: a rejection with retry_count >= MAX_RETRIES ends the graph without
\* a further call, and the run returns the current (rejected) draft.
C6_RejectedAtMaxRetriesReturnsDraft ==
    /\ [][ (ed_pc = "check" /\ critique_result = "rejected"
              /\ retry_count >= MAX_RETRIES)
           => (ed_pc' = "END" /\ UNCHANGED <<calls, current_briefing>>) ]_vars
    /\ [][ ed_pc = "END"
           => (ed_pc' = "returned" /\ UNCHANGED <<calls, current_briefing>>) ]_vars
    /\ []((ed_pc = "returned" /\ critique_result = "rejected")
            => (ret = current_briefing /\ ret = critiqued /\ Truthy(ret)))

C6_Witness ==
    /\ ed_pc = "returned" /\ critique_result = "rejected"
    /\ retry_count = MAX_RETRIES /\ ret = current_briefing

\* C7: an approval ends the graph at once, without a REVISE or a further
\* CRITIQUE, and the run returns the draft that was just critiqued.
C7_ApprovedReturnsCritiquedDraft ==
    /\ [][ (ed_pc = "check" /\ critique_result = "approved")
           => (ed_pc' = "END" /\ UNCHANGED <<calls, current_briefing>>) ]_vars
    /\ []((ed_pc \in {"END", "returned"} /\ critique_result = "approved")
            => (final_output = critiqued /\ current_briefing = critiqued))
    /\ []((ed_pc = "returned" /\ critique_result = "approved")
            => (ret = critiqued /\ Truthy(ret)))

\* a revised draft was approved and returned
C7_Witness ==
    /\ ed_pc = "returned" /\ critique_result = "approved"
    /\ revises > 0 /\ ret = critiqued

\* C8: a rejection with retry_count < MAX_RETRIES leads to REVISE; REVISE
\* issues exactly one structured-extraction call and, when the call returns,
\* replaces the draft, adds one to retry_count and hands over to CRITIQUE,
\* which critiques the new draft.
C8_RejectedBelowMaxRevisesOnce ==
    /\ [][ (ed_pc = "check" /\ critique_result = "rejected"
              /\ retry_count < MAX_RETRIES) => ed_pc' = "revise" ]_vars
    /\ [][ ed_pc = "revise"
           => /\ calls' = [calls EXCEPT !.revise = @ + 1]
              /\ \/ /\ ed_pc' = "critique"
                    /\ current_briefing' # current_briefing
                    /\ Truthy(current_briefing')
                    /\ retry_count' = retry_count + 1
                 \/ /\ ed_pc' = "raised" /\ callFailed' ]_vars
    /\ [][ (ed_pc = "critique" /\ ed_pc' = "check")
           => critiqued' = current_briefing ]_vars

\* a draft was rejected, revised once and the revision was critiqued
C8_Witness ==
    /\ ed_pc = "check" /\ revises = 1 /\ retry_count = 1
    /\ calls.revise = 1 /\ calls.critique = 2
    /\ critiqued = current_briefing

\* C9 as stated: a run on an empty batch issues no structured-extraction
\* call at all.
C9_NoCallOnEmptyBatch ==
    (ed_pc # "off" /\ threats = <<>>) => TotalCalls = 0

\* C9 as amended: on an empty batch the DRAFT step issues no call and
\* yields the canned briefing, which is then handed to CRITIQUE.
C9_DraftShortCircuits ==
    /\ [][ (ed_pc = "draft" /\ threats = <<>>)
           => /\ UNCHANGED calls
              /\ current_briefing' = CannedBriefing
              /\ ed_pc' = "critique" ]_vars
    /\ []((ed_pc # "off" /\ threats = <<>>) => calls.draft = 0)

\* the canned briefing of an empty batch has been critiqued
C9_Witness ==
    /\ threats = <<>> /\ ed_pc = "check"
    /\ critiqued = CannedBriefing /\ calls.draft = 0

\* C10: when a call fails in a run started by run_curator_workflow, the
\* graph takes no further step, nothing reaches the caller, and the
\* fallback text is what curator:latest_summary holds on return.
C10_FailureStoresFallback ==
    (caller = "curator" /\ callFailed)
        => /\ ed_pc = "raised"
           /\ ~propagated
           /\ cw_pc \in {"in_run", "returned"}
           /\ (cw_pc = "returned" => latest_summary = "error")

\* a revise call failed and run_curator_workflow returned
C10_Witness ==
    /\ caller = "curator" /\ callFailed /\ calls.revise > 0
    /\ cw_pc = "returned" /\ latest_summary = "error"

\* the entries whose "data" does not decode or does not validate
Malformed == { i \in 1..Len(pending) : pending[i].kind # "doc" }

\* C11: a pending entry whose payload is not JSON or does not validate as a
\* RawDocument is acknowledged and skipped by a worker that does not crash:
\* the worker never goes past the unwrapping step with it, the entry is
\* in-flight only while the worker is at that step, and no read ever
\* delivers it a second time.
C11_MalformedAckedAndSkipped ==
    /\ [](\A w \in procs :
            (recv[w] \in Malformed) => pc[w] \in {"handle", "poll", "poll_new"})
    /\ [](\A i \in Malformed \cap delivered :
            (i \in PelIds) => \E w \in procs : pc[w] = "handle" /\ recv[w] = i)
    /\ [][\A w \in procs :
            ( /\ pc[w] \in {"poll", "poll_new"}
              /\ pc'[w] = "handle"
              /\ recv'[w] \in Malformed )
                => recv'[w] \notin delivered]_vars

\* an undecodable entry and a non-validating entry were both delivered
\* and acknowledged, and the worker went on to a later entry
C11_Witness ==
    \E i, j \in delivered \ PelIds :
        /\ pending[i].kind = "badjson"
        /\ pending[j].kind = "invalid"
        /\ \E w \in procs : recv[w] > i /\ recv[w] > j

BothMarked(d) ==
    /\ \/ \E m \in idMarker : m.key = d.id /\ m.ex = TTL
       \/ <<"id", d.id>> \in expired
    /\ \/ \E m \in hashMarker :
             m.key = compute_content_hash(d.title) /\ m.ex = TTL
       \/ <<"hash", compute_content_hash(d.title)>> \in expired

-----------------------------------------------------------------------------
(* Properties of the ingestion service *)

\* C14: the ingestion service never passes to the Two-Stage Filter a
\* document that was already seen and rejected (handled by the worker
\* without a kept ThreatSignature) and whose two markers are unexpired.
C14_RejectedNotRefiltered ==
    \A c \in filter_log : ~c.rejected_before

-----------------------------------------------------------------------------
(* Properties of the dedup functions *)

\* two titles that differ only in letter case and in punctuation characters:
\* equal once lower-cased and with the punctuation characters left out
DropPunct(s) == SelectSeq(s, LAMBDA c : ~IsPunct(c))
DifferOnlyInCaseAndPunct(t, u) ==
    DropPunct(LowerSeq(t)) = DropPunct(LowerSeq(u))

\* C15: for two titles that differ only in letter case and in punctuation
\* characters compute_content_hash yields the same key, and once one of the
\* documents is marked (markers unexpired) is_duplicate reports the other
\* one, whatever its id.
C15_CaseAndPunctSameKey ==
    ( /\ dd_pc = "checked" /\ expired = {}
      /\ DifferOnlyInCaseAndPunct(marked_doc.title, checked_doc.title) )
        => /\ compute_content_hash(marked_doc.title)
                = compute_content_hash(checked_doc.title)
           /\ dup_ret = TRUE

\* C16: after mark_as_processed(d), is_duplicate(d') is true exactly when
\* d' shares with d a key whose marker has not expired, the id or the title
\* fingerprint, either one alone sufficing; for a document neither of whose
\* keys has a live marker (none was written, or both ran out) it is false.
C16_DuplicateIffLiveKey ==
    /\ (dd_pc = "checked") =>
          ( dup_ret <=>
              \/ /\ checked_doc.id = marked_doc.id
                 /\ <<"id", marked_doc.id>> \notin expired
              \/ /\ compute_content_hash(checked_doc.title)
                      = compute_content_hash(marked_doc.title)
                 /\ <<"hash", compute_content_hash(marked_doc.title)>>
                      \notin expired )
    /\ (dd_pc = "checked_unmarked") => ~dup_ret

\* a document with another id and a title of different spelling is
\* reported duplicate through the fingerprint key alone
C16_Witness ==
    /\ dd_pc = "checked" /\ dup_ret /\ expired = {}
    /\ checked_doc.id # marked_doc.id
    /\ checked_doc.title # marked_doc.title

-----------------------------------------------------------------------------
(* Properties of the per-document workflow and its agents *)

\* C17: FilterAgent.analyze issues no structured-extraction call and
\* returns "not relevant" when the pre-filter score is strictly below the
\* reject threshold, issues none and returns "relevant" when the score is at
\* or above the auto-accept threshold, and issues exactly one call for a
\* score from the reject threshold up to, not including, the auto-accept one.
C17_CallOnlyWhenBorderline ==
    /\ llm_calls.filter <= 1
    /\ (filter_result # None) =>
          /\ (regex_result.score < filter_regex_threshold)
                => (llm_calls.filter = 0 /\ ~filter_result.is_relevant)
          /\ (regex_result.score >= filter_auto_accept_threshold)
                => (llm_calls.filter = 0 /\ filter_result.is_relevant)
          /\ ( /\ regex_result.score >= filter_regex_threshold
               /\ regex_result.score < filter_auto_accept_threshold )
                => llm_calls.filter = 1

\* analyze returned after one call for a score equal to the reject threshold
C17_Witness ==
    /\ filter_result # None
    /\ regex_result.score = filter_regex_threshold
    /\ llm_calls.filter = 1
    /\ llm_error.filter = None

\* C18: when the borderline structured-extraction call fails,
\* FilterAgent.analyze raises nothing and returns a verdict whose
\* is_relevant is the pre-filter's own decision (score >= 50), with the
\* error message embedded in the reasoning.
C18_FallbackOnCallFailure ==
    (llm_error.filter # None) =>
        /\ filter_result # None
        /\ filter_result.is_relevant = (regex_result.score >= 50)
        /\ filter_result.error = llm_error.filter
        /\ (wf_pc = "check_relevance" => ~wf_raised)

\* the call failed for a document the pre-filter accepts, and analyze
\* returned "relevant"
C18_Witness ==
    /\ wf_pc = "check_relevance"
    /\ llm_error.filter = ApiError
    /\ filter_result.is_relevant
    /\ filter_result.error = ApiError

IsSignature(x) == x.kind = "ThreatSignature"

IsPrefix(s, t) == Len(s) <= Len(t) /\ \A i \in 1..Len(s) : s[i] = t[i]

\* C19: one invocation of the per-document workflow runs FILTER first, runs
\* EXTRACT only after a relevant verdict, runs SAVE only after extraction
\* returned a ThreatSignature, runs each node at most once and in that
\* order, and ends.
C19_LinearWorkflow ==
    /\ [] /\ IsPrefix(steps, <<"filter", "extract", "save">>)
          /\ (Len(steps) >= 2 \/ wf_pc \in {"extract", "extract_llm"})
                => (is_relevant /\ steps[1] = "filter")
          /\ (Len(steps) = 3 \/ wf_pc = "save")
                => (IsSignature(threat_signature) /\ Len(steps) >= 2)
          /\ (wf_pc \in {"END", "raised"}) => Len(steps) >= 1
    /\ <>[](wf_pc \in {"END", "raised"})

\* the invocation ended after running the three nodes
C19_Witness ==
    wf_pc = "END" /\ steps = <<"filter", "extract", "save">>

\* C20: ExtractionAgent.process never raises: for empty content it returns
\* None without a call; otherwise it issues one call and returns None when
\* the call or the ThreatSignature construction failed, a ThreatSignature
\* when both succeeded.
C20_ProcessReturnsNoneOrSignature ==
    /\ llm_calls.extract <= 1
    /\ wf_raised => Len(steps) = 3
    /\ (Len(steps) >= 2) =>
          /\ (wf_doc.content = "empty")
                => (llm_calls.extract = 0 /\ threat_signature = None)
          /\ (wf_doc.content # "empty")
                => /\ llm_calls.extract = 1
                   /\ (llm_error.extract # None) => threat_signature = None
                   /\ (llm_error.extract = None)
                         => IsSignature(threat_signature)

\* the call returned, the construction of the ThreatSignature failed, and
\* the workflow ended without a signature
C20_Witness ==
    /\ wf_pc = "END" /\ ~wf_raised
    /\ wf_doc.content = "text"
    /\ llm_error.extract = ValidationError
    /\ threat_signature = None

-----------------------------------------------------------------------------
(* Properties of ExtractionAgent.process and the ThreatSignature model *)

\* C21: every ThreatSignature that ExtractionAgent.process returns has the
\* url, the published_date and the source of the input document, whatever
\* the response of the structured call names for them.
C21_IdentityFromDocument ==
    IsSignature(threat_signature) =>
        /\ threat_signature.url = wf_doc.url
        /\ threat_signature.published_date = wf_doc.published_date
        /\ threat_signature.source = wf_doc.source

\* process returned a ThreatSignature although the response named another
\* url, another date and another source than the document has
C21_Witness ==
    /\ IsSignature(threat_signature)
    /\ extraction # None
    /\ extraction.url # wf_doc.url
    /\ extraction.url.scheme \in {"http", "https"}
    /\ extraction.published_date # wf_doc.published_date
    /\ extraction.source # wf_doc.source

\* the five severity labels and the integers the claim assigns to them
SeverityLabels ==
    (<<"C","r","i","t","i","c","a","l">> :> 5) @@ (<<"H","i","g","h">> :> 4)
    @@ (<<"M","e","d","i","u","m">> :> 3) @@ (<<"L","o","w">> :> 2)
    @@ (<<"I","n","f","o">> :> 1)
\* a value the constructor recognizes: a label in any letter case, or an
\* integer from 1 to 5
Recognized(v) ==
    \/ v.type = "str"
       /\ \E l \in DOMAIN SeverityLabels : LowerSeq(l) = LowerSeq(v.s)
    \/ v.type \in {"int", "bool"} /\ v.n \in 1..5

\* C22: constructing a ThreatSignature never fails because of severity and
\* stores an integer from 1 to 5: Critical, High, Medium, Low, Info give 5,
\* 4, 3, 2, 1, an integer from 1 to 5 is kept, an integer outside 1..5 and
\* every value that is not recognized give 1.
C22_SeverityNormalized ==
    (ts_pc = "done") =>
        LET v == ts_kwargs.severity
        IN /\ IsSignature(ts_obj)
                <=> (ts_kwargs.fields_ok /\ ts_kwargs.url.scheme \in {"http", "https"})
           /\ IsSignature(ts_obj) =>
                /\ ts_obj.severity \in 1..5
                /\ (v.type = "str" /\ v.s \in DOMAIN SeverityLabels)
                      => ts_obj.severity = SeverityLabels[v.s]
                /\ (v.type = "int" /\ v.n \in 1..5) => ts_obj.severity = v.n
                /\ (v.type = "int" /\ v.n \notin 1..5) => ts_obj.severity = 1
                /\ ~Recognized(v) => ts_obj.severity = 1

\* a ThreatSignature was built from an integer severity above 5
C22_Witness ==
    /\ ts_pc = "done" /\ IsSignature(ts_obj)
    /\ ts_kwargs.severity = PyInt(MaxSeverityInt)
    /\ ts_obj.severity = 1

-----------------------------------------------------------------------------
(* Properties of the pre-filter MLSecurityFilter.evaluate *)

\* the kill-list short-circuit: a kill-list term and fewer than 2 ML anchors
KillShortCircuit(f) == f.kill /\ f.anchors < 2

\* C23: when a kill-list term matches and fewer than 2 ML-anchor matches are
\* present, the pre-filter returns REJECT with score 0 and confidence 0.95,
\* whatever other terms are present.
C23_KillListRejects ==
    (regex_result # None /\ KillShortCircuit(wf_doc)) =>
        /\ regex_result.status = "REJECT"
        /\ regex_result.score = 0
        /\ regex_result.confidence = 95

\* the pre-filter rejected a document with a kill-list term and one ML anchor
\* that matches every other group of terms
C23_Witness ==
    /\ regex_result # None
    /\ wf_doc.kill /\ wf_doc.anchors = 1
    /\ wf_doc.strong /\ wf_doc.safety /\ wf_doc.genai /\ wf_doc.ambiguous = 3
    /\ regex_result.score = 0
    /\ filter_result # None /\ ~filter_result.is_relevant

\* the score the claim assigns to a match profile
ProfileScore(f) ==
    LET base == (IF f.strong THEN 50 ELSE 0) + (IF f.safety THEN 30 ELSE 0)
                + (IF f.ambiguous >= 1 /\ f.anchors >= 1
                   THEN 20 * (IF f.ambiguous < 3 THEN f.ambiguous ELSE 3)
                   ELSE 0)
        boosted == IF f.genai THEN (base * 13) \div 10 ELSE base
    IN boosted + (IF f.anchors >= 3 THEN 10 ELSE 0)

\* C24: outside the kill-list short-circuit the pre-filter score is 50 for a
\* strong-AML match, plus 30 for a safety match, plus 20 times the number of
\* ambiguous matches (at most 3) when an ML anchor matched, then times 1.3
\* truncated for a GenAI match, then plus 10 for 3 or more ML anchors; it is
\* never negative and the status is ACCEPT iff the score is at least 50.
C24_ScoreOfProfile ==
    (regex_result # None /\ ~KillShortCircuit(wf_doc)) =>
        /\ regex_result.score = ProfileScore(wf_doc)
        /\ regex_result.score >= 0
        /\ (regex_result.status = "ACCEPT") <=> (regex_result.score >= 50)
        /\ regex_result.status \in {"ACCEPT", "REJECT"}

\* a strong-AML match with a GenAI match and 3 ML anchors scored
\* int(50 * 1.3) + 10 = 75, with the kill list matched as well
C24_Witness ==
    /\ regex_result # None
    /\ wf_doc.kill /\ wf_doc.anchors = 3 /\ wf_doc.strong /\ wf_doc.genai
    /\ ~wf_doc.safety /\ wf_doc.ambiguous = 0
    /\ regex_result.score = 75 /\ regex_result.status = "ACCEPT"

-----------------------------------------------------------------------------
(* Properties of the consumer group under several workers, restarts and *)
(* reclaims                                                             *)

\* worker w holds a delivery and has not finished handling it
Handling(w) ==
    pc[w] \in {"handle", "dup_id", "dup_hash", "skip_dup", "workflow", "save",
               "mark_id", "mark_hash", "ack", "except"}

\* C25: with several worker processes in one consumer group, an in-flight
\* entry is in-flight to exactly one consumer, and two workers handle the
\* same entry at the same time only if the entry was reclaimed.
C25_OneWorkerPerEntry ==
    /\ \A e1, e2 \in pel : e1.id = e2.id => e1 = e2
    /\ \A w1, w2 \in procs :
          (w1 # w2 /\ Handling(w1) /\ Handling(w2) /\ recv[w1] = recv[w2])
              => recv[w1] \in reclaimed

\* C26: in every polling iteration the worker reads its own in-flight
\* entries first (history cursor) and reads with the new cursor only when
\* that read returned nothing; a non-empty history read hands it one of its
\* in-flight entries; an entry leaves the in-flight list only while the
\* worker handles a delivery of it. Hence after a crash and restart no new
\* entry is delivered before every entry left in-flight was handled again.
C26_HistoryBeforeNew ==
    /\ [][\A w \in procs :
            (pc'[w] = "poll_new" /\ pc[w] # "poll_new")
                => (pc[w] = "poll" /\ OwnPel(CONSUMER_NAME) = {})]_vars
    /\ [][\A w \in procs :
            (pc[w] = "poll" /\ pc'[w] \notin {"poll", "boot"} /\ PelIds # {})
                => (pc'[w] = "handle" /\ recv'[w] \in PelIds /\ pel' = pel)]_vars
    /\ [][(delivered' # delivered) => PelIds = {}]_vars
    /\ [][\A i \in PelIds :
            (i \notin { e.id : e \in pel' })
                => \E w \in procs : recv[w] = i /\ Handling(w)]_vars

\* after a restart the worker received the entry it had left in-flight
\* while an entry that was never delivered is waiting on the stream
C26_Witness ==
    /\ crashes > 0
    /\ lastDelivered < Len(pending)
    /\ \E w \in procs :
          pc[w] = "handle" /\ recv[w] \in PelIds /\ recv[w] \in reclaimed

\* C27: an entry that stays in-flight, for instance because the worker that
\* received it crashed, is owned by the consumer of a running worker and is
\* eventually handled by that worker: again and again the entry is not
\* in-flight, or a running worker whose consumer owns it is handling it.
C27_StuckEntryHandled ==
    \A i \in 1..MaxPending :
        []<>( \/ i \notin PelIds
              \/ /\ [id |-> i, consumer |-> CONSUMER_NAME] \in pel
                 /\ \E w \in procs : recv[w] = i /\ Handling(w) )

\* an entry that the restarted worker claimed is in-flight and the worker
\* has taken it through the duplicate check to the workflow step
C27_Witness ==
    /\ crashes > 0
    /\ \E w \in procs :
          /\ pc[w] = "workflow"
          /\ recv[w] \in reclaimed
          /\ [id |-> recv[w], consumer |-> CONSUMER_NAME] \in pel

-----------------------------------------------------------------------------
(* Properties of the stream wrapper RedisClient and of the group creation *)

\* C28: an ack_job call raises nothing, removes exactly the named entry from
\* the in-flight list and leaves the stream, the cursor and the group as
\* they are; for an id that is not in the in-flight list (acknowledged
\* before, or never delivered) it changes nothing, so a second
\* acknowledgment has no effect.
C28_AckIdempotent ==
    [][(Len(acked') > Len(acked)) =>
          LET id == acked'[Len(acked')]
          IN /\ cl_error' = None
             /\ pel' = { e \in pel : e.id # id }
             /\ (id \notin PelIds) => pel' = pel
             /\ id \notin { e.id : e \in pel' }
             /\ UNCHANGED <<pending, lastDelivered, groupExists, delivered>>]_vars

\* a delivered entry was acknowledged twice in a row
C28_Witness ==
    /\ Len(acked) = 2
    /\ acked[1] = acked[2]
    /\ acked[1] \in delivered
    /\ cl_error = None

\* C29: creating the group when it exists raises nothing to the caller and
\* leaves the cursor and the in-flight list of the group unchanged, both in
\* the creation that precedes every read of read_jobs and in the creation
\* at every start of a worker.
C29_GroupCreationIdempotent ==
    /\ [][(cl_pc = "idle" /\ cl_pc' = "read" /\ groupExists)
            => /\ cl_error' = None
               /\ groupExists'
               /\ lastDelivered' = lastDelivered /\ pel' = pel]_vars
    /\ [][\A w \in procs :
            (pc[w] = "boot" /\ pc'[w] # "boot" /\ groupExists)
                => /\ pc'[w] = "reclaim"
                   /\ groupExists'
                   /\ lastDelivered' = lastDelivered /\ pel' = pel]_vars

\* a restarted worker and a read_jobs call have both passed the creation
\* of a group that had delivered entries and has one in-flight
C29_Witness ==
    /\ crashes > 0
    /\ \E w \in procs : pc[w] = "reclaim"
    /\ cl_pc = "read"
    /\ lastDelivered > 0 /\ pel # {}

C31_FirstReadDeliversEnqueued ==
    [][(cl_pc = "read" /\ cl_pc' = "idle" /\ cl_before # {})
          => 1 \in { cl_results'[k].msg_id : k \in 1..Len(cl_results') }]_vars

-----------------------------------------------------------------------------
(* Properties of the ingestion cycle, the curator trigger and the streams *)

CrashedAfterAppend(i) ==
    /\ crashes > 0
    /\ i \in PelIds
    /\ \E w \in procs : pc[w] = "boot"
    /\ \E k \in 1..Len(analyzed) : analyzed[k].src = i
\* papers:analyzed holds two entries written for delivery i
WrittenTwice(i) ==
    \E k1, k2 \in 1..Len(analyzed) :
        k1 < k2 /\ analyzed[k1].src = i /\ analyzed[k2].src = i

C35_StreamsAppendOnly ==
    [][IsPrefix(pending, pending') /\ IsPrefix(analyzed, analyzed')]_vars

\* the workflow that belongs to a trigger name
Corresponds(m, wf) ==
    \/ m = "ingest" /\ wf = "ingest"
    \/ m = "process_batch" /\ wf = "process_batch"
    \/ m = "process_with_curator" /\ wf = "editorial"

\* C36: each trigger name runs its corresponding workflow and only that
\* one, and a message outside the vocabulary starts no workflow: every
\* workflow a trigger message started is the one that belongs to it.
C36_TriggerRunsItsWorkflow ==
    \A s \in started : Corresponds(s.msg, s.workflow)

\* C37: when is_duplicate is true the worker only acknowledges the entry
\* and counts it: a check that finds a marker leads to the duplicate branch
\* and changes nothing; the duplicate branch removes the entry from the
\* in-flight list, adds 1 to processed_count and goes back to polling,
\* without a workflow step or a structured-extraction call, without an
\* append to papers:analyzed and without a marker write.
C37_DuplicateOnlyAcked ==
    [][\A w \in procs :
        /\ (pc[w] = "dup_id" /\ pc'[w] # pc[w] /\ HasIdMarker(doc[w]))
              => pc'[w] = "skip_dup"
        /\ (pc[w] = "dup_hash" /\ pc'[w] # pc[w] /\ HasHashMarker(doc[w]))
              => pc'[w] = "skip_dup"
        /\ (pc'[w] = "skip_dup" /\ pc[w] # "skip_dup")
              => /\ pc[w] \in {"dup_id", "dup_hash"}
                 /\ HasIdMarker(doc[w]) \/ HasHashMarker(doc[w])
                 /\ UNCHANGED <<pel, analyzed, idMarker, hashMarker,
                                processed_count, llm_calls>>
        /\ (pc[w] = "skip_dup" /\ pc'[w] # "skip_dup")
              => /\ pc'[w] = "poll"
                 /\ pel' = XAck(pel, recv[w])
                 /\ processed_count'[w] = processed_count[w] + 1
                 /\ UNCHANGED <<analyzed, idMarker, hashMarker, llm_calls,
                                latest_summary, curator_runs>>]_vars

\* the entry was analyzed, delivered again and skipped as a duplicate: it
\* is counted twice, acknowledged, and papers:analyzed holds one entry
C37_Witness ==
    \E w \in procs :
        /\ pc[w] = "poll" /\ recv[w] = 1 /\ 1 \notin PelIds
        /\ processed_count[w] = 2
        /\ Len(analyzed) = 1 /\ analyzed[1].src = 1
        /\ HasIdMarker(analyzed[1].doc) /\ HasHashMarker(analyzed[1].doc)

\* a finding with a concrete content, as the claim words it
ConcreteFinding(sig) ==
    /\ sig.attack_type # ""
    /\ sig.affected_models # <<>>
    /\ Len(sig.summary_tldr) > 20
    /\ \A phrase \in generic_placeholders :
          ~Contains(LowerSeq(sig.summary_tldr), phrase)

\* C38: papers:analyzed grows only by the ThreatSignature a workflow run
\* returned, and only when that signature is non-null and has a non-empty
\* attack_type, a non-empty affected_models, a summary of more than 20
\* characters and no generic placeholder; a null or rejected result
\* appends nothing.
C38_OnlyValidatedAppended ==
    /\ [][analyzed' # analyzed
            => /\ va_pc = "save"
               /\ va_final # None /\ ConcreteFinding(va_final)
               /\ analyzed' = Append(analyzed, va_final)]_vars
    /\ [][(va_pc = "save" /\ va_pc' # "save"
             /\ (va_final = None \/ ~ConcreteFinding(va_final)))
            => analyzed' = analyzed]_vars
    /\ [](\A k \in 1..Len(analyzed) : ConcreteFinding(analyzed[k]))

\* a signature whose summary has 21 characters passed the validation and
\* was appended
C38_Witness ==
    /\ va_pc = "mark"
    /\ Len(analyzed) = 1 /\ analyzed[1] = va_final
    /\ Len(va_final.summary_tldr) = 21

\* C39: in every state of an editorial run retry_count lies between 0 and
\* MAX_RETRIES and equals the number of REVISE steps executed so far in
\* the run (every REVISE step issues one call; a step whose call raises
\* ends the run).
C39_RetryCountBounded ==
    /\ retry_count \in 0..MAX_RETRIES
    /\ retry_count = revises
    /\ ed_pc # "raised" => retry_count = calls.revise

\* the third REVISE of a run has been executed
C39_Witness ==
    /\ ed_pc = "critique" /\ retry_count = MAX_RETRIES
    /\ revises = MAX_RETRIES /\ calls.revise = MAX_RETRIES

\* C40: CRITIQUE runs with a draft, REVISE and the approval check run with
\* a critique result (and REVISE with a draft): the ValueError branches of
\* critique_node and revise_node and the missing-critique branch of
\* check_approval are never taken, so a run is left by an exception only
\* when a call raised.
C40_GuardsNeverFire ==
    /\ ed_pc = "critique" => Truthy(current_briefing)
    /\ ed_pc \in {"check", "revise"}
          => (critique_result # "none" /\ Truthy(current_briefing))
    /\ ed_pc = "raised" => callFailed

\* REVISE is about to run on a rejected draft
C40_Witness ==
    /\ ed_pc = "revise" /\ critique_result = "rejected"
    /\ Truthy(current_briefing) /\ ~callFailed

====
